---- MODULE Spec2Model ----
(***************************************************************************)
(* A model of github.com/aead/s3: the configuration resolver (Parse), the  *)
(* size parser (sizeValue.Set), the bucket helper (MakeBucket) and the     *)
(* set-up / teardown skeleton of the test scenarios.                       *)
(*                                                                         *)
(* Strings that the code inspects byte by byte (the argument of            *)
(* sizeValue.Set) are sequences of one-character strings.  Strings that    *)
(* the code only compares with "" or passes on (endpoint, keys, bucket     *)
(* names) are TLA+ strings.                                                *)
(*                                                                         *)
(* An int64 is a sequence of four 16-bit limbs, least significant first,   *)
(* holding the two's complement bit pattern; arithmetic on it is modulo    *)
(* 2^64 as in Go.                                                          *)
(***************************************************************************)
EXTENDS Integers, Sequences, FiniteSets, TLC

VARIABLES
    \* ---- package-level configuration, src/s3.go:81-106
    Endpoint, AccessKey, SecretKey, Insecure, NoTLS, Size, MultipartSize,
    parsed, parseErr,
    \* ---- the process environment of Parse: command line and os environment
    args, env,
    \* ---- observation of Parse: calls made, value returned, sources read
    parseCalls, parseRet, flagReads, envReads, envChanges,
    \* ---- observation of sizeValue.Set: argument, returned error, calls
    setRecv, setArg, setErr, setCalls,
    \* ---- the S3 server behind the client: buckets, objects, requests received
    buckets, objects, calls,
    \* ---- the testing.TB of the running test: reports, failed flag
    tLog, tFailed,
    \* ---- callers of MakeBucket: results returned, last helper call,
    \* ---- callback invocations
    made, last, invocations,
    \* ---- the running scenario: its description and program, position,
    \* ---- deferred calls, how its body ended, objects it created
    scenario, steps, pc, ip, defers, outcome, created,
    \* ---- the content the server holds for each object of the bucket under
    \* ---- test, and the answers it gave to the test whose checks are observed
    store, served

cfgVars == <<Endpoint, AccessKey, SecretKey, Insecure, NoTLS, Size, MultipartSize>>
parseVars == <<parsed, parseErr, args, env, parseCalls, parseRet, flagReads, envReads, envChanges>>
sizeVars == <<setRecv, setArg, setErr, setCalls>>
serverVars == <<buckets, objects, calls>>
testVars == <<tLog, tFailed>>
helperVars == <<made, last, invocations>>
scenarioVars == <<scenario, steps, pc, ip, defers, outcome, created>>
dataVars == <<store, served>>
harnessVars == <<serverVars, testVars, helperVars, scenarioVars, dataVars>>
vars == <<cfgVars, parseVars, sizeVars, harnessVars>>

-----------------------------------------------------------------------------
(* int64 arithmetic *)

\* The nil error.
Nil == "nil"
\* The two errors of strconv.ParseInt.
ErrSyntax == "strconv.ParseInt: invalid syntax"
ErrRange == "strconv.ParseInt: value out of range"

LimbBase == 2^16
\* limbs of an int64
NLimbs == 64 \div 16
\* limbs of the unbounded naturals the properties are stated with
WideLimbs == 2 * NLimbs

ZeroLimbs(n) == [i \in 1..n |-> 0]

\* x*k + a on limbs: the value modulo LimbBase^Len(x), and the carry out.
MulAdd(x, k, a) ==
    LET c[i \in 0..Len(x)] ==
            IF i = 0 THEN a ELSE (x[i] * k + c[i-1]) \div LimbBase
    IN  [val |-> [i \in 1..Len(x) |-> (x[i] * k + c[i-1]) % LimbBase],
         carry |-> c[Len(x)]]

\* int64(n) for a small natural n < 2^31.
Int64(n) == MulAdd(ZeroLimbs(NLimbs), 0, n).val

\* v < 0 on an int64: the sign bit.
IsNeg(v) == v[NLimbs] >= LimbBase \div 2

\* v *= -1 on an int64: two's complement negation modulo 2^64.
Neg(v) == MulAdd([i \in 1..NLimbs |-> LimbBase - 1 - v[i]], 1, 1).val

\* v *= 1024^e on an int64, modulo 2^64.
RECURSIVE MulPow1024(_, _)
MulPow1024(v, e) ==
    IF e = 0 THEN v ELSE MulPow1024(MulAdd(v, 1024, 0).val, e - 1)

MinInt64 == [i \in 1..NLimbs |-> IF i = NLimbs THEN LimbBase \div 2 ELSE 0]
MaxInt64 == [i \in 1..NLimbs |-> IF i = NLimbs THEN LimbBase \div 2 - 1 ELSE LimbBase - 1]
MaxUint64 == [i \in 1..NLimbs |-> LimbBase - 1]

-----------------------------------------------------------------------------
(* strings.ToUpper, strings.HasSuffix, strconv.ParseInt *)

LowerLetters == <<"a","b","c","d","e","f","g","h","i","j","k","l","m",
                  "n","o","p","q","r","s","t","u","v","w","x","y","z">>
UpperLetters == <<"A","B","C","D","E","F","G","H","I","J","K","L","M",
                  "N","O","P","Q","R","S","T","U","V","W","X","Y","Z">>
DigitChars == <<"0","1","2","3","4","5","6","7","8","9">>

IsDigit(c) == \E i \in 1..10 : DigitChars[i] = c
DigitVal(c) == (CHOOSE i \in 1..10 : DigitChars[i] = c) - 1

ToUpperChar(c) ==
    IF \E i \in 1..26 : LowerLetters[i] = c
    THEN UpperLetters[CHOOSE i \in 1..26 : LowerLetters[i] = c]
    ELSE c

\* strings.ToUpper on an ASCII string
ToUpper(s) == [i \in 1..Len(s) |-> ToUpperChar(s[i])]

\* strings.HasSuffix
HasSuffix(s, suffix) ==
    /\ Len(s) >= Len(suffix)
    /\ SubSeq(s, Len(s) - Len(suffix) + 1, Len(s)) = suffix

\* s[:len(s)-n]
DropLast(s, n) == SubSeq(s, 1, Len(s) - n)

\* strconv.ParseUint(s, 10, 64) from character i on, acc parsed so far:
\* a non-digit is a syntax error, a value beyond 2^64-1 a range error,
\* whichever comes first from the left.
RECURSIVE ParseUintFrom(_, _, _)
ParseUintFrom(s, i, acc) ==
    IF i > Len(s) THEN [un |-> acc, err |-> Nil]
    ELSE IF ~IsDigit(s[i]) THEN [un |-> ZeroLimbs(NLimbs), err |-> ErrSyntax]
    ELSE LET r == MulAdd(acc, 10, DigitVal(s[i]))
         IN  IF r.carry # 0 THEN [un |-> MaxUint64, err |-> ErrRange]
             ELSE ParseUintFrom(s, i + 1, r.val)

ParseUint(s) ==
    IF s = <<>> THEN [un |-> ZeroLimbs(NLimbs), err |-> ErrSyntax]
    ELSE ParseUintFrom(s, 1, ZeroLimbs(NLimbs))

\* strconv.ParseInt(s, 10, 64)
ParseInt(s) ==
    IF s = <<>> THEN [v |-> ZeroLimbs(NLimbs), err |-> ErrSyntax]
    ELSE LET neg == s[1] = "-"
             body == IF s[1] = "+" \/ s[1] = "-" THEN Tail(s) ELSE s
             u == ParseUint(body)
             big == IsNeg(u.un)   \* un >= 1<<63
         IN  IF u.err = ErrSyntax THEN [v |-> ZeroLimbs(NLimbs), err |-> ErrSyntax]
             ELSE IF ~neg /\ big THEN [v |-> MaxInt64, err |-> ErrRange]
             ELSE IF neg /\ big /\ u.un # MinInt64 THEN [v |-> MinInt64, err |-> ErrRange]
             ELSE [v |-> IF neg THEN Neg(u.un) ELSE u.un, err |-> Nil]

-----------------------------------------------------------------------------
(* sizeValue, src/s3.go:20-67 *)

\* The exponents e of the multipliers 1024^e: B = 1, KB = 1024*B, MB = 1024*KB,
\* GB = 1024*MB.
ExpB == 0
ExpKB == ExpB + 1
ExpMB == ExpKB + 1
ExpGB == ExpMB + 1

\* SuffixCase with the case for B tried first.
SuffixCaseShortestFirst(s) ==
    LET upper == ToUpper(s)
    IN  IF HasSuffix(upper, <<"B">>) THEN [cut |-> 1, exp |-> ExpB]
        ELSE IF HasSuffix(upper, <<"G","B">>) THEN [cut |-> 2, exp |-> ExpGB]
        ELSE IF HasSuffix(upper, <<"M","B">>) THEN [cut |-> 2, exp |-> ExpMB]
        ELSE IF HasSuffix(upper, <<"K","B">>) THEN [cut |-> 2, exp |-> ExpKB]
        ELSE [cut |-> 0, exp |-> ExpB]

\* The switch of Set: the first case, in source order, whose condition holds
\* decides how many bytes are cut off and the multiplier.
SuffixCase(s) ==
    LET upper == ToUpper(s)
    IN  IF HasSuffix(upper, <<"G","B">>) THEN [cut |-> 2, exp |-> ExpGB]
        ELSE IF HasSuffix(upper, <<"M","B">>) THEN [cut |-> 2, exp |-> ExpMB]
        ELSE IF HasSuffix(upper, <<"K","B">>) THEN [cut |-> 2, exp |-> ExpKB]
        ELSE IF HasSuffix(upper, <<"B">>) THEN [cut |-> 1, exp |-> ExpB]
        ELSE [cut |-> 0, exp |-> ExpB]

\* if v < 0 { v *= -1 }
Normalize(v) == IF IsNeg(v) THEN Neg(v) ELSE v

\* Set without the return at "if err != nil": the value the parser returned
\* with its error is stored.
SizeSetStoringOnError(old, s) ==
    LET c == SuffixCase(s)
        p == ParseInt(DropLast(s, c.cut))
        v == MulPow1024(p.v, c.exp)
    IN  [sv |-> Normalize(v), err |-> p.err]

\* (sv *sizeValue).Set(s) on a stored value old: the value stored afterwards
\* and the error returned.
SizeSet(old, s) ==
    LET c == SuffixCase(s)
        p == ParseInt(DropLast(s, c.cut))
        v == MulPow1024(p.v, c.exp)
    IN  IF p.err # Nil THEN [sv |-> old, err |-> p.err]
        ELSE [sv |-> Normalize(v), err |-> Nil]

\* newSizeValue(val, p): *p = val
newSizeValue(val) == Int64(val)

-----------------------------------------------------------------------------
(* init and Parse, src/s3.go:69-149 *)

\* A flag that is not on the command line; an environment variable that is
\* not exported.
NotGiven == "<not given>"
Unset == "<unset>"

EnvNames == {"SERVER_ENDPOINT", "ACCESS_KEY", "SECRET_KEY"}

ErrNoEndpoint == "No server endpoint is provided and also no SERVER_ENDPOINT env. variable is exported"
ErrNoAccessKey == "No access key is provided and also no ACCESS_KEY env. variable is exported"
ErrNoSecretKey == "No secret key is provided and also no SECRET_KEY env. variable is exported"

\* The defaults init registers with the flag package.
DefaultEndpoint == "localhost:9000"
DefaultSize == 32 * 1024
DefaultMultipartSize == 64 * 1024 * 1024
\* The sizes Parse substitutes for a zero size.
FallbackSize == 32 * 1024
FallbackMultipartSize == 65 * 1024 * 1024

\* The package-level variables once init has run.
InitConfig ==
    [Endpoint |-> DefaultEndpoint, AccessKey |-> "", SecretKey |-> "",
     Insecure |-> FALSE, NoTLS |-> FALSE,
     Size |-> newSizeValue(DefaultSize),
     MultipartSize |-> newSizeValue(DefaultMultipartSize)]

\* flag.Parse(): every flag on the command line a is stored in its variable,
\* the size flags through sizeValue.Set; the others keep their value.
FlagParse(c, a) ==
    [Endpoint |-> IF a.server = NotGiven THEN c.Endpoint ELSE a.server,
     AccessKey |-> IF a.access = NotGiven THEN c.AccessKey ELSE a.access,
     SecretKey |-> IF a.secret = NotGiven THEN c.SecretKey ELSE a.secret,
     Insecure |-> IF a.insecure THEN TRUE ELSE c.Insecure,
     NoTLS |-> IF a.disableTLS THEN TRUE ELSE c.NoTLS,
     Size |-> IF a.size = NotGiven THEN c.Size ELSE SizeSet(c.Size, a.size).sv,
     MultipartSize |-> IF a.sizeMultipart = NotGiven THEN c.MultipartSize
                       ELSE SizeSet(c.MultipartSize, a.sizeMultipart).sv]

\* os.LookupEnv(name) in environment e
LookupEnv(e, name) ==
    IF e[name] = Unset THEN [val |-> "", ok |-> FALSE] ELSE [val |-> e[name], ok |-> TRUE]

\* if Size == 0 { Size = 32 * 1024 }; if MultipartSize == 0 { ... }
ZeroSizes(c) ==
    [c EXCEPT !.Size = IF @ = Int64(0) THEN Int64(FallbackSize) ELSE @,
              !.MultipartSize = IF @ = Int64(0) THEN Int64(FallbackMultipartSize) ELSE @]

\* The three lookups of Parse, in source order, on the configuration c left
\* by flag.Parse: the configuration afterwards, the error, and the number of
\* environment lookups made.
ResolveSecret(c, e, n) ==
    IF c.SecretKey # "" THEN [cfg |-> ZeroSizes(c), err |-> Nil, reads |-> n]
    ELSE LET l == LookupEnv(e, "SECRET_KEY")
             c1 == [c EXCEPT !.SecretKey = l.val]
         IN  IF ~l.ok THEN [cfg |-> c1, err |-> ErrNoSecretKey, reads |-> n + 1]
             ELSE [cfg |-> ZeroSizes(c1), err |-> Nil, reads |-> n + 1]

\* ResolveAccess with the environment consulted before the flag's value.
ResolveAccessEnvFirst(c, e, n) ==
    LET l == LookupEnv(e, "ACCESS_KEY")
        c1 == [c EXCEPT !.AccessKey = IF l.ok THEN l.val ELSE @]
    IN  IF c1.AccessKey = "" THEN [cfg |-> c1, err |-> ErrNoAccessKey, reads |-> n + 1]
        ELSE ResolveSecret(c1, e, n + 1)

\* ResolveAccess with the secret key checked before the access key.
ResolveAccessSecretFirst(c, e, n) ==
    IF c.SecretKey = "" /\ ~LookupEnv(e, "SECRET_KEY").ok
    THEN [cfg |-> c, err |-> ErrNoSecretKey, reads |-> n + 1]
    ELSE IF c.AccessKey # "" THEN ResolveSecret(c, e, n)
    ELSE LET l == LookupEnv(e, "ACCESS_KEY")
             c1 == [c EXCEPT !.AccessKey = l.val]
         IN  IF ~l.ok THEN [cfg |-> c1, err |-> ErrNoAccessKey, reads |-> n + 1]
             ELSE ResolveSecret(c1, e, n + 1)

ResolveAccess(c, e, n) ==
    IF c.AccessKey # "" THEN ResolveSecret(c, e, n)
    ELSE LET l == LookupEnv(e, "ACCESS_KEY")
             c1 == [c EXCEPT !.AccessKey = l.val]
         IN  IF ~l.ok THEN [cfg |-> c1, err |-> ErrNoAccessKey, reads |-> n + 1]
             ELSE ResolveSecret(c1, e, n + 1)

ResolveEndpoint(c, e) ==
    IF c.Endpoint # "" THEN ResolveAccess(c, e, 0)
    ELSE LET l == LookupEnv(e, "SERVER_ENDPOINT")
             c1 == [c EXCEPT !.Endpoint = l.val]
         IN  IF ~l.ok THEN [cfg |-> c1, err |-> ErrNoEndpoint, reads |-> 1]
             ELSE ResolveAccess(c1, e, 1)

\* The package-level variables as a record.
Config ==
    [Endpoint |-> Endpoint, AccessKey |-> AccessKey, SecretKey |-> SecretKey,
     Insecure |-> Insecure, NoTLS |-> NoTLS, Size |-> Size,
     MultipartSize |-> MultipartSize]

SetConfig(c) ==
    /\ Endpoint' = c.Endpoint
    /\ AccessKey' = c.AccessKey
    /\ SecretKey' = c.SecretKey
    /\ Insecure' = c.Insecure
    /\ NoTLS' = c.NoTLS
    /\ Size' = c.Size
    /\ MultipartSize' = c.MultipartSize

\* The guard of Parse when every call runs the body.
MustResolveAlways(p) == TRUE

\* The guard of Parse: the body runs when parsed is false.
MustResolve(p) == ~p

\* MarkParsed when the assignment is forgotten.
MarkParsedForgotten(p) == p

\* The first statement of the body of Parse: parsed = true.
MarkParsed(p) == TRUE

-----------------------------------------------------------------------------
(* The S3 client handed to the helpers, and testing.TB *)

ErrRequest == "request failed"
ErrBucketExists == "BucketAlreadyOwnedByYou"
ErrNoSuchBucket == "NoSuchBucket"
ErrBucketNotEmpty == "BucketNotEmpty"
ErrNoSuchKey == "NoSuchKey"

\* A request as the server sees it: the client method, its arguments, and
\* the answer (ok is the boolean of BucketExists).
Call(fn, bucket, arg, ok, err) ==
    [fn |-> fn, bucket |-> bucket, arg |-> arg, ok |-> ok, err |-> err]

\* client.BucketExists(b); fault: the request fails.
ClientBucketExists(bks, b, fault) ==
    IF fault THEN [ok |-> FALSE, err |-> ErrRequest] ELSE [ok |-> b \in bks, err |-> Nil]

\* client.MakeBucket(b, location)
ClientMakeBucket(bks, b, fault) ==
    IF fault THEN [buckets |-> bks, err |-> ErrRequest]
    ELSE IF b \in bks THEN [buckets |-> bks, err |-> ErrBucketExists]
    ELSE [buckets |-> bks \cup {b}, err |-> Nil]

\* client.RemoveBucket(b)
ClientRemoveBucket(bks, objs, b, fault) ==
    IF fault THEN [buckets |-> bks, err |-> ErrRequest]
    ELSE IF b \notin bks THEN [buckets |-> bks, err |-> ErrNoSuchBucket]
    ELSE IF \E o \in objs : o[1] = b THEN [buckets |-> bks, err |-> ErrBucketNotEmpty]
    ELSE [buckets |-> bks \ {b}, err |-> Nil]

\* client.RemoveObject(b, o)
ClientRemoveObject(bks, objs, b, o, fault) ==
    IF fault THEN [objects |-> objs, err |-> ErrRequest]
    ELSE IF b \notin bks THEN [objects |-> objs, err |-> ErrNoSuchBucket]
    ELSE [objects |-> objs \ {<<b, o>>}, err |-> Nil]

\* client.PutObject(b, o, ...)
ClientPutObject(bks, objs, b, o, fault) ==
    IF fault THEN [objects |-> objs, err |-> ErrRequest]
    ELSE IF b \notin bks THEN [objects |-> objs, err |-> ErrNoSuchBucket]
    ELSE [objects |-> objs \cup {<<b, o>>}, err |-> Nil]

\* client.CopyObject(dst, src) inside bucket b
ClientCopyObject(bks, objs, b, src, dst, fault) ==
    IF fault THEN [objects |-> objs, err |-> ErrRequest]
    ELSE IF b \notin bks THEN [objects |-> objs, err |-> ErrNoSuchBucket]
    ELSE IF <<b, src>> \notin objs THEN [objects |-> objs, err |-> ErrNoSuchKey]
    ELSE [objects |-> objs \cup {<<b, dst>>}, err |-> Nil]

\* client.GetObject, client.StatObject, client.ListObjects: a read of b/o
\* (o = "" reads the bucket)
ClientRead(bks, objs, b, o, fault) ==
    IF fault THEN [objects |-> objs, err |-> ErrRequest]
    ELSE IF b \notin bks THEN [objects |-> objs, err |-> ErrNoSuchBucket]
    ELSE IF o # "" /\ <<b, o>> \notin objs THEN [objects |-> objs, err |-> ErrNoSuchKey]
    ELSE [objects |-> objs, err |-> Nil]

\* t.Errorf(...): the report is logged and the test marked failed; the test
\* goes on.  t.Fatalf(...): the same, and the test function ends, running
\* its deferred calls.  t.Skip(...): logged, the test function ends.
Errorf(what, name, err) == [level |-> "Errorf", what |-> what, name |-> name, err |-> err]
Fatalf(what, name, err) == [level |-> "Fatalf", what |-> what, name |-> name, err |-> err]
Skip(what) == [level |-> "Skip", what |-> what, name |-> "", err |-> Nil]

\* t.Failed() after the reports rs have been made
FailedAfter(failed, rs) ==
    failed \/ \E i \in 1..Len(rs) : rs[i].level \in {"Errorf", "Fatalf"}

-----------------------------------------------------------------------------
(* MakeBucket, RemoveObject, RemoveBucket, src/s3.go:159-221 *)

\* The function values MakeBucket returns: nil, the closure that removes
\* the bucket, the empty closure.
NilCallback == [fn |-> "nil", bucket |-> ""]
RemoveCallback(bucket) == [fn |-> "remove", bucket |-> bucket]
NoopCallback(bucket) == [fn |-> "noop", bucket |-> bucket]

\* The location MakeBucket passes to make.
MakeLocation == ""

\* MakeBucketCase without the test of err.
MakeBucketCaseIgnoresErr(ok, err) == IF ~ok THEN "make" ELSE "default"

\* MakeBucketCase with the bucket made whenever exists succeeds.
MakeBucketCaseAlwaysMakes(ok, err) == IF err # Nil THEN "error" ELSE "make"

\* switch ok, err := exists(bucket); { case err != nil: case !ok: default: }
MakeBucketCase(ok, err) ==
    IF err # Nil THEN "error" ELSE IF ~ok THEN "make" ELSE "default"

\* MakeBucket(bucket, exists, make, remove) with the client's methods on the
\* buckets bks: the callback and error returned, the requests made and the
\* buckets afterwards.  existsFault, makeFault: the request fails.
MakeBucket(bucket, bks, existsFault, makeFault) ==
    LET ex == ClientBucketExists(bks, bucket, existsFault)
        exCall == Call("BucketExists", bucket, "", ex.ok, ex.err)
        which == MakeBucketCase(ex.ok, ex.err)
        mk == ClientMakeBucket(bks, bucket, makeFault)
        mkCall == Call("MakeBucket", bucket, MakeLocation, FALSE, mk.err)
    IN  IF which = "error"
        THEN [cb |-> NilCallback, err |-> ex.err, calls |-> <<exCall>>, buckets |-> bks]
        ELSE IF which = "make"
        THEN IF mk.err # Nil
             THEN [cb |-> NilCallback, err |-> mk.err, calls |-> <<exCall, mkCall>>,
                   buckets |-> mk.buckets]
             ELSE [cb |-> RemoveCallback(bucket), err |-> Nil, calls |-> <<exCall, mkCall>>,
                   buckets |-> mk.buckets]
        ELSE [cb |-> NoopCallback(bucket), err |-> Nil, calls |-> <<exCall>>, buckets |-> bks]

\* RemovalReports that reports nothing.
RemovalReportsNothing(what, name, err) == <<>>

\* if err := remove(...); err != nil { t.Errorf("Failed to remove ...") }
RemovalReports(what, name, err) ==
    IF err # Nil THEN <<Errorf(what, name, err)>> ELSE <<>>

\* The callback cb invoked with a testing.TB: the requests made, the buckets
\* afterwards and the reports to t.
RunCallback(cb, bks, objs, fault) ==
    IF cb.fn = "remove"
    THEN LET r == ClientRemoveBucket(bks, objs, cb.bucket, fault)
         IN  [calls |-> <<Call("RemoveBucket", cb.bucket, "", FALSE, r.err)>>,
              buckets |-> r.buckets,
              reports |-> RemovalReports("Failed to remove bucket", cb.bucket, r.err)]
    ELSE [calls |-> <<>>, buckets |-> bks, reports |-> <<>>]

\* RemoveObject that passes no error on to t.
RemoveObjectUnreported(bucket, object, bks, objs, fault) ==
    LET r == ClientRemoveObject(bks, objs, bucket, object, fault)
    IN  [calls |-> <<Call("RemoveObject", bucket, object, FALSE, r.err)>>,
         objects |-> r.objects,
         reports |-> <<>>]

\* RemoveObject(bucket, object, remove, t)
RemoveObject(bucket, object, bks, objs, fault) ==
    LET r == ClientRemoveObject(bks, objs, bucket, object, fault)
    IN  [calls |-> <<Call("RemoveObject", bucket, object, FALSE, r.err)>>,
         objects |-> r.objects,
         reports |-> RemovalReports("Failed to remove object", object, r.err)]

\* RemoveBucket that calls remove a second time when it has failed.
RemoveBucketRetrying(bucket, bks, objs, fault) ==
    LET r == ClientRemoveBucket(bks, objs, bucket, fault)
        again == ClientRemoveBucket(bks, objs, bucket, FALSE)
    IN  IF r.err = Nil
        THEN [calls |-> <<Call("RemoveBucket", bucket, "", FALSE, r.err)>>,
              buckets |-> r.buckets,
              reports |-> <<>>]
        ELSE [calls |-> <<Call("RemoveBucket", bucket, "", FALSE, r.err),
                          Call("RemoveBucket", bucket, "", FALSE, again.err)>>,
              buckets |-> again.buckets,
              reports |-> RemovalReports("Failed to remove bucket", bucket, again.err)]

\* RemoveBucket(bucket, remove, t)
RemoveBucket(bucket, bks, objs, fault) ==
    LET r == ClientRemoveBucket(bks, objs, bucket, fault)
    IN  [calls |-> <<Call("RemoveBucket", bucket, "", FALSE, r.err)>>,
         buckets |-> r.buckets,
         reports |-> RemovalReports("Failed to remove bucket", bucket, r.err)]

-----------------------------------------------------------------------------
(* Bounds and input sets *)

\* calls of Parse in one run
MaxParseCalls == 2
\* changes of the environment in one run
MaxEnvChanges == 1
\* calls of sizeValue.Set in one run
MaxSets == 1
\* length of the exhaustively enumerated arguments of sizeValue.Set
MaxLen == 2
\* calls of MakeBucket by one caller
MaxMakeBuckets == 2
\* invocations of returned callbacks by one caller
MaxInvocations == 2
\* b.N, the iterations of a benchmark loop
BenchN == 1
\* length of the payload a test uploads, in bytes
MaxPayload == 2

\* Values of the string flags and of the environment variables.
FlagStrings == {NotGiven, "", "flag-value"}
EnvStrings == {Unset, "", "env-value", "env-value-2"}

\* The remaining flags, as given together on a command line.
OtherFlags ==
    {[insecure |-> FALSE, disableTLS |-> FALSE, size |-> NotGiven, sizeMultipart |-> NotGiven],
     [insecure |-> TRUE, disableTLS |-> FALSE, size |-> <<"0">>, sizeMultipart |-> NotGiven],
     [insecure |-> FALSE, disableTLS |-> TRUE, size |-> NotGiven, sizeMultipart |-> <<"0">>],
     [insecure |-> TRUE, disableTLS |-> TRUE, size |-> <<"2","k","B">>, sizeMultipart |-> <<"-","1","M","B">>]}

CommandLines ==
    {[server |-> s, access |-> a, secret |-> k, insecure |-> o.insecure,
      disableTLS |-> o.disableTLS, size |-> o.size, sizeMultipart |-> o.sizeMultipart] :
        s \in FlagStrings, a \in FlagStrings, k \in FlagStrings, o \in OtherFlags}

NoFlags ==
    [server |-> NotGiven, access |-> NotGiven, secret |-> NotGiven, insecure |-> FALSE,
     disableTLS |-> FALSE, size |-> NotGiven, sizeMultipart |-> NotGiven]

\* Numbers around the limits of int64 and of the multipliers.
LimitNumbers ==
    {<<"0">>,
     <<"1">>,
     <<"3","2">>,
     <<"6","5">>,
     <<"1","0","2","4">>,
     <<"8","5","8","9","9","3","4","5","9","1">>,
     <<"8","5","8","9","9","3","4","5","9","2">>,
     <<"1","2","8","8","4","9","0","1","8","8","8">>,
     <<"8","7","9","6","0","9","3","0","2","2","2","0","8">>,
     <<"9","0","0","7","1","9","9","2","5","4","7","4","0","9","9","1">>,
     <<"9","0","0","7","1","9","9","2","5","4","7","4","0","9","9","2">>,
     <<"9","2","2","3","3","7","2","0","3","6","8","5","4","7","7","5","8","0","7">>,
     <<"9","2","2","3","3","7","2","0","3","6","8","5","4","7","7","5","8","0","8">>,
     <<"1","8","4","4","6","7","4","4","0","7","3","7","0","9","5","5","1","6","1","5">>,
     <<"1","8","4","4","6","7","4","4","0","7","3","7","0","9","5","5","1","6","1","6">>}

SuffixesB == {<<"B">>, <<"b">>}
SuffixesKB == {<<"K","B">>, <<"k","B">>, <<"K","b">>, <<"k","b">>}
SuffixesMB == {<<"M","B">>, <<"m","B">>, <<"M","b">>, <<"m","b">>}
SuffixesGB == {<<"G","B">>, <<"g","B">>, <<"G","b">>, <<"g","b">>}
SizeSuffixes == {<<>>} \cup SuffixesB \cup SuffixesKB \cup SuffixesMB \cup SuffixesGB

\* The arguments of a call of Set that follows another one: of every case
\* of the switch, and of every error of the number parser.
LaterInputs ==
    {<<"1">>, <<"-","2","K","B">>, <<"3","m","b">>, <<"4","G","b">>, <<"5","B">>,
     <<"K","B">>, <<"x">>, <<>>,
     <<"9","2","2","3","3","7","2","0","3","6","8","5","4","7","7","5","8","0","8">>,
     <<"8","5","8","9","9","3","4","5","9","2","G","B">>}

Alphabet == {"1", "-", "K", "B", "x"}

RECURSIVE StringsUpTo(_)
StringsUpTo(n) ==
    IF n = 0 THEN {<<>>}
    ELSE LET shorter == StringsUpTo(n - 1)
         IN  shorter \cup {Append(s, c) : s \in shorter, c \in Alphabet}

SizeInputs ==
    {sign \o n \o suf : sign \in {<<>>, <<"-">>}, n \in LimitNumbers,
                        suf \in {<<>>, <<"B">>, <<"K","B">>, <<"M","B">>, <<"G","B">>}}
    \cup {sign \o n \o suf : sign \in {<<>>, <<"-">>, <<"+">>}, n \in {<<"1">>, <<"3","2">>},
                             suf \in SizeSuffixes}
    \cup {<<"1","T","B">>, <<"1","K">>, <<"1","B","K">>, <<"1","K","B","B">>, <<"1","."," ","5","K","B">>}
    \cup StringsUpTo(MaxLen)

-----------------------------------------------------------------------------
(* Actions *)

\* Parse(), src/s3.go:114-149
Parse ==
    /\ parseCalls < MaxParseCalls
    /\ IF MustResolve(parsed)
       THEN LET r == ResolveEndpoint(FlagParse(Config, args), env)
            IN  /\ parsed' = MarkParsed(parsed)
                /\ SetConfig(r.cfg)
                /\ parseErr' = r.err
                /\ flagReads' = flagReads + 1
                /\ envReads' = envReads + r.reads
       ELSE UNCHANGED <<cfgVars, parsed, parseErr, flagReads, envReads>>
    /\ parseRet' = parseErr'
    /\ parseCalls' = parseCalls + 1
    /\ UNCHANGED <<args, env, envChanges, sizeVars, harnessVars>>

\* The environment changes between two calls of Parse: a variable is
\* exported, changed or unset.
Setenv ==
    /\ envChanges < MaxEnvChanges
    /\ \E name \in EnvNames, v \in EnvStrings :
          /\ v # env[name]
          /\ env' = [env EXCEPT ![name] = v]
    /\ envChanges' = envChanges + 1
    /\ UNCHANGED <<cfgVars, parsed, parseErr, args, parseCalls, parseRet, flagReads,
                   envReads, sizeVars, harnessVars>>

\* (sv *sizeValue).Set(s) on the value of -size or of -sizeMultipart,
\* src/s3.go:27-63
Set ==
    /\ setCalls < MaxSets
    /\ \E recv \in {"size", "sizeMultipart"},
          s \in IF setCalls = 0 THEN SizeInputs ELSE LaterInputs :
          LET r == SizeSet(IF recv = "size" THEN Size ELSE MultipartSize, s)
          IN  /\ Size' = IF recv = "size" THEN r.sv ELSE Size
              /\ MultipartSize' = IF recv = "sizeMultipart" THEN r.sv ELSE MultipartSize
              /\ setRecv' = recv
              /\ setArg' = s
              /\ setErr' = r.err
    /\ setCalls' = setCalls + 1
    /\ UNCHANGED <<Endpoint, AccessKey, SecretKey, Insecure, NoTLS, parseVars, harnessVars>>

\* The server holds the content of no object.
NoObjects == [o \in {} |-> 0]

\* No helper has been called; no scenario is running.
NoHelperCall == [op |-> "none", bucket |-> "", calls |-> <<>>, cb |-> NilCallback, err |-> Nil,
                 reports |-> <<>>, origin |-> 0]
NoScenario == [name |-> "", skipIfNoTLS |-> FALSE, secure |-> "true", bucket |-> ""]

\* No call of Set yet.
NoSet ==
    /\ setRecv = "size"
    /\ setArg = <<>>
    /\ setErr = Nil
    /\ setCalls = 0

\* The process after init, with command line a and environment e.
Started(a, e) ==
    /\ Endpoint = InitConfig.Endpoint
    /\ AccessKey = InitConfig.AccessKey
    /\ SecretKey = InitConfig.SecretKey
    /\ Insecure = InitConfig.Insecure
    /\ NoTLS = InitConfig.NoTLS
    /\ Size = InitConfig.Size
    /\ MultipartSize = InitConfig.MultipartSize
    /\ parsed = FALSE
    /\ parseErr = Nil
    /\ args = a
    /\ env = e
    /\ parseCalls = 0
    /\ parseRet = Nil
    /\ flagReads = 0
    /\ envReads = 0
    /\ envChanges = 0

\* No test is running and no helper has been called.
NoTest ==
    /\ buckets = {}
    /\ objects = {}
    /\ calls = <<>>
    /\ tLog = <<>>
    /\ tFailed = FALSE
    /\ made = <<>>
    /\ last = NoHelperCall
    /\ invocations = 0
    /\ scenario = NoScenario
    /\ steps = <<>>
    /\ pc = "idle"
    /\ ip = 0
    /\ defers = <<>>
    /\ outcome = "none"
    /\ created = {}
    /\ store = NoObjects
    /\ served = <<>>

Init ==
    /\ \E a \in CommandLines, e \in [EnvNames -> EnvStrings \ {"env-value-2"}] : Started(a, e)
    /\ NoSet
    /\ NoTest

Next == Parse \/ Setenv

Spec == Init /\ [][Next]_vars

InitSize ==
    /\ Started(NoFlags, [n \in EnvNames |-> Unset])
    /\ NoSet
    /\ NoTest

NextSize == Set

SpecSize == InitSize /\ [][NextSize]_vars

-----------------------------------------------------------------------------
(* Properties of Parse *)

\* The step is a call of Parse.
ParseStep == parseCalls' = parseCalls + 1
\* The step is the first call of Parse.
FirstParseStep == parseCalls = 0 /\ parseCalls' = 1

\* What the command line leaves in a string variable once the flags are
\* parsed: the flag's value when given, the registered default otherwise.
AfterFlags(given, default) == IF given = NotGiven THEN default ELSE given
EndpointAfterFlags == AfterFlags(args.server, "localhost:9000")
AccessAfterFlags == AfterFlags(args.access, "")
SecretAfterFlags == AfterFlags(args.secret, "")

Exported(name) == env[name] # Unset

\* C1: once a call of Parse has returned nil, every later call returns nil,
\* reads neither the flags nor the environment again and leaves every
\* configuration variable as it was, whatever the environment holds now.
C1_ParseIdempotent ==
    [][(parseCalls >= 1 /\ parseRet = Nil /\ ParseStep)
          => /\ parseRet' = Nil
             /\ flagReads' = flagReads
             /\ envReads' = envReads
             /\ Config' = Config]_vars

\* A second call of Parse has returned nil although the environment now
\* exports a different access key than the one resolved.
C1_Witness ==
    /\ parseCalls = 2
    /\ parseRet = Nil
    /\ envChanges = 1
    /\ AccessAfterFlags = ""
    /\ AccessKey = "env-value"
    /\ env["ACCESS_KEY"] = "env-value-2"

\* C2 as stated: after the first call of Parse each of endpoint, access key
\* and secret key is the value left by the flags when that is non-empty, and
\* the value of its environment variable when the flags left it empty and the
\* variable is exported.
C2_FlagPrecedenceOriginal ==
    [][FirstParseStep
          => /\ EndpointAfterFlags # "" => Endpoint' = EndpointAfterFlags
             /\ AccessAfterFlags # "" => AccessKey' = AccessAfterFlags
             /\ SecretAfterFlags # "" => SecretKey' = SecretAfterFlags
             /\ (EndpointAfterFlags = "" /\ Exported("SERVER_ENDPOINT"))
                    => Endpoint' = env["SERVER_ENDPOINT"]
             /\ (AccessAfterFlags = "" /\ Exported("ACCESS_KEY"))
                    => AccessKey' = env["ACCESS_KEY"]
             /\ (SecretAfterFlags = "" /\ Exported("SECRET_KEY"))
                    => SecretKey' = env["SECRET_KEY"]]_vars

\* C2 as amended: a non-empty value left by the flags is always kept; an
\* empty one is replaced by the exported environment variable unless Parse
\* has already returned the error for a value earlier in the order endpoint,
\* access key, secret key.
C2_FlagPrecedence ==
    [][FirstParseStep
          => /\ EndpointAfterFlags # "" => Endpoint' = EndpointAfterFlags
             /\ AccessAfterFlags # "" => AccessKey' = AccessAfterFlags
             /\ SecretAfterFlags # "" => SecretKey' = SecretAfterFlags
             /\ (EndpointAfterFlags = "" /\ Exported("SERVER_ENDPOINT"))
                    => Endpoint' = env["SERVER_ENDPOINT"]
             /\ (AccessAfterFlags = "" /\ Exported("ACCESS_KEY")
                 /\ parseRet' # ErrNoEndpoint)
                    => AccessKey' = env["ACCESS_KEY"]
             /\ (SecretAfterFlags = "" /\ Exported("SECRET_KEY")
                 /\ parseRet' \notin {ErrNoEndpoint, ErrNoAccessKey})
                    => SecretKey' = env["SECRET_KEY"]]_vars

\* Parse has kept the access key of the command line although ACCESS_KEY is
\* exported, and has taken the secret key from the environment.
C2_Witness ==
    /\ parseCalls = 1
    /\ envChanges = 0
    /\ args.access = "flag-value"
    /\ env["ACCESS_KEY"] = "env-value"
    /\ AccessKey = "flag-value"
    /\ SecretAfterFlags = ""
    /\ env["SECRET_KEY"] = "env-value"
    /\ SecretKey = "env-value"

Missing(afterFlags, name) == afterFlags = "" /\ ~Exported(name)

\* C3: when a required value is empty after the flags and its environment
\* variable is not exported, the first call of Parse returns the error that
\* names it; of several missing values the first in the order endpoint,
\* access key, secret key decides.
C3_MissingValueFails ==
    [][FirstParseStep
          => /\ Missing(EndpointAfterFlags, "SERVER_ENDPOINT")
                    => parseRet' = ErrNoEndpoint
             /\ (~Missing(EndpointAfterFlags, "SERVER_ENDPOINT")
                 /\ Missing(AccessAfterFlags, "ACCESS_KEY"))
                    => parseRet' = ErrNoAccessKey
             /\ (~Missing(EndpointAfterFlags, "SERVER_ENDPOINT")
                 /\ ~Missing(AccessAfterFlags, "ACCESS_KEY")
                 /\ Missing(SecretAfterFlags, "SECRET_KEY"))
                    => parseRet' = ErrNoSecretKey]_vars

\* The first call of Parse has returned the access key error although the
\* secret key is missing too.
C3_Witness ==
    /\ parseCalls = 1
    /\ envChanges = 0
    /\ Missing(AccessAfterFlags, "ACCESS_KEY")
    /\ Missing(SecretAfterFlags, "SECRET_KEY")
    /\ parseRet = ErrNoAccessKey

-----------------------------------------------------------------------------
(* Properties of sizeValue.Set *)

\* The value the last call of Set was made on.
Stored == IF setRecv = "size" THEN Size ELSE MultipartSize

\* The argument read as <sign> <digits> <suffix>: the suffix is what follows
\* the last digit, the sign a leading + or -.
LastDigit(s) ==
    IF \E i \in 1..Len(s) : IsDigit(s[i])
    THEN CHOOSE i \in 1..Len(s) : IsDigit(s[i]) /\ \A j \in i+1..Len(s) : ~IsDigit(s[j])
    ELSE 0
SuffixOf(s) == SubSeq(s, LastDigit(s) + 1, Len(s))
SignedOf(s) == SubSeq(s, 1, LastDigit(s))
HasSign(s) == SignedOf(s) # <<>> /\ SignedOf(s)[1] \in {"+", "-"}
DigitsOf(s) == IF HasSign(s) THEN Tail(SignedOf(s)) ELSE SignedOf(s)

\* s is a decimal integer followed by nothing, B, KB, MB or GB in any case.
IsSizeString(s) ==
    /\ DigitsOf(s) # <<>>
    /\ \A i \in 1..Len(DigitsOf(s)) : IsDigit(DigitsOf(s)[i])
    /\ SuffixOf(s) \in SizeSuffixes

\* The multiplier 1, 1, 1024, 1024^2, 1024^3 of a suffix, as the number of
\* factors 1024.
FactorsOf(suffix) ==
    IF suffix \in SuffixesKB THEN 1
    ELSE IF suffix \in SuffixesMB THEN 2
    ELSE IF suffix \in SuffixesGB THEN 3
    ELSE 0

\* The natural number a digit string denotes, on WideLimbs limbs (no digit
\* string of the model reaches 2^128).
RECURSIVE NatOf(_, _)
NatOf(digits, acc) ==
    IF digits = <<>> THEN acc
    ELSE NatOf(Tail(digits), MulAdd(acc, 10, DigitVal(Head(digits))).val)

RECURSIVE Times1024(_, _)
Times1024(w, n) == IF n = 0 THEN w ELSE Times1024(MulAdd(w, 1024, 0).val, n - 1)

\* |n| * m for the size string s
Magnitude(s) == Times1024(NatOf(DigitsOf(s), ZeroLimbs(WideLimbs)), FactorsOf(SuffixOf(s)))

\* w <= 2^63 - 1
FitsInt64(w) ==
    /\ \A i \in NLimbs+1..Len(w) : w[i] = 0
    /\ w[NLimbs] < LimbBase \div 2

\* C7: for a decimal integer n followed by nothing, B, KB, MB or GB in any
\* case, Set succeeds and stores |n| * m with m = 1, 1, 1024, 1024^2, 1024^3
\* whenever |n| * m fits in an int64.
C7_SetComputesBytes ==
    (setCalls > 0 /\ IsSizeString(setArg) /\ FitsInt64(Magnitude(setArg)))
        => /\ setErr = Nil
           /\ Stored = SubSeq(Magnitude(setArg), 1, NLimbs)

\* Set("-32kB") has returned nil and stored 32768.
C7_Witness ==
    /\ setCalls > 0
    /\ setErr = Nil
    /\ setArg = <<"-","3","2","k","B">>
    /\ Stored = Int64(32768)

\* C8 as stated: after a call of Set that returned nil the stored value is
\* not negative.
C8_NeverNegative == (setCalls > 0 /\ setErr = Nil) => ~IsNeg(Stored)

-----------------------------------------------------------------------------
(* A caller of MakeBucket *)

BucketNames == {"bucket-a", "bucket-b"}

\* remove, err := MakeBucket(b, client.BucketExists, client.MakeBucket,
\* client.RemoveBucket)
CallMakeBucket ==
    /\ Len(made) < MaxMakeBuckets
    /\ \E b \in BucketNames, existsFault \in BOOLEAN, makeFault \in BOOLEAN :
          LET r == MakeBucket(b, buckets, existsFault, makeFault)
          IN  /\ buckets' = r.buckets
              /\ calls' = calls \o r.calls
              /\ made' = Append(made, [bucket |-> b, cb |-> r.cb, err |-> r.err,
                                       calls |-> r.calls])
              /\ last' = [op |-> "MakeBucket", bucket |-> b, calls |-> r.calls,
                          cb |-> r.cb, err |-> r.err, reports |-> <<>>,
                          origin |-> Len(made) + 1]
    /\ UNCHANGED <<cfgVars, parseVars, sizeVars, dataVars, objects, testVars, invocations, scenarioVars>>

\* remove(t), for a callback that MakeBucket returned with a nil error
InvokeCallback ==
    /\ invocations < MaxInvocations
    /\ \E i \in 1..Len(made), fault \in BOOLEAN :
          /\ made[i].err = Nil
          /\ LET r == RunCallback(made[i].cb, buckets, objects, fault)
             IN  /\ buckets' = r.buckets
                 /\ calls' = calls \o r.calls
                 /\ tLog' = tLog \o r.reports
                 /\ tFailed' = FailedAfter(tFailed, r.reports)
                 /\ last' = [op |-> "callback", bucket |-> made[i].bucket, calls |-> r.calls,
                             cb |-> made[i].cb, err |-> Nil, reports |-> r.reports,
                             origin |-> i]
    /\ invocations' = invocations + 1
    /\ UNCHANGED <<cfgVars, parseVars, sizeVars, dataVars, objects, made, scenarioVars>>

InitBucket ==
    /\ Started(NoFlags, [n \in EnvNames |-> Unset])
    /\ NoSet
    /\ buckets \in SUBSET BucketNames
    /\ objects \in {{}, {<<b, "object-1">> : b \in buckets}}
    /\ calls = <<>>
    /\ tLog = <<>>
    /\ tFailed = FALSE
    /\ made = <<>>
    /\ last = NoHelperCall
    /\ invocations = 0
    /\ scenario = NoScenario
    /\ steps = <<>>
    /\ pc = "idle"
    /\ ip = 0
    /\ defers = <<>>
    /\ outcome = "none"
    /\ created = {}
    /\ store = NoObjects
    /\ served = <<>>

NextBucket == CallMakeBucket \/ InvokeCallback

SpecBucket == InitBucket /\ [][NextBucket]_vars

-----------------------------------------------------------------------------
(* Properties of MakeBucket *)

\* The step is a call of MakeBucket; the step is an invocation of a callback.
MakeBucketStep == Len(made') = Len(made) + 1
CallbackStep == invocations' = invocations + 1

\* In the requests cs of a MakeBucket call, exists returned (v, nil).
ExistsReturned(cs, v) ==
    cs # <<>> /\ cs[1].fn = "BucketExists" /\ cs[1].err = Nil /\ cs[1].ok = v
\* In the requests cs of a MakeBucket call, exists returned an error.
ExistsFailed(cs) == cs # <<>> /\ cs[1].fn = "BucketExists" /\ cs[1].err # Nil

CallsOf(cs, fn) == {i \in 1..Len(cs) : cs[i].fn = fn}

\* C4: when exists returns (true, nil), MakeBucket never calls make and
\* returns a nil error and a callback that never calls remove: neither the
\* call nor the callback changes the set of buckets, so that a bucket that
\* existed before still exists when the callback has run.
C4_ExistingBucketKept ==
    [][/\ (MakeBucketStep /\ ExistsReturned(last'.calls, TRUE))
            => /\ CallsOf(last'.calls, "MakeBucket") = {}
               /\ last'.err = Nil
               /\ last'.cb # NilCallback
               /\ buckets' = buckets
       /\ (CallbackStep /\ ExistsReturned(made[last'.origin].calls, TRUE))
            => /\ CallsOf(last'.calls, "RemoveBucket") = {}
               /\ calls' = calls
               /\ buckets' = buckets]_vars

\* The callback returned for a bucket that existed has run and the bucket
\* is still there.
C4_Witness ==
    /\ last.op = "callback"
    /\ ExistsReturned(made[last.origin].calls, TRUE)
    /\ last.bucket \in buckets

\* C5: when exists returns (false, nil), MakeBucket calls make exactly once,
\* with the bucket name and an empty location; when make succeeds it returns
\* a nil error and a callback that on every invocation calls remove exactly
\* once on that bucket and reports a remove error with t.Errorf, and nothing
\* otherwise.  MakeBucket itself never calls remove.
C5_AbsentBucketMade ==
    [][/\ MakeBucketStep => CallsOf(last'.calls, "RemoveBucket") = {}
       /\ (MakeBucketStep /\ ExistsReturned(last'.calls, FALSE))
            => /\ Len(last'.calls) = 2
               /\ last'.calls[2].fn = "MakeBucket"
               /\ last'.calls[2].bucket = last'.bucket
               /\ last'.calls[2].arg = ""
               /\ last'.calls[2].err = Nil
                    => last'.err = Nil /\ last'.cb = RemoveCallback(last'.bucket)
       /\ (CallbackStep /\ ExistsReturned(made[last'.origin].calls, FALSE))
            => /\ Len(last'.calls) = 1
               /\ calls' = calls \o last'.calls
               /\ last'.calls[1].fn = "RemoveBucket"
               /\ last'.calls[1].bucket = made[last'.origin].bucket
               /\ tLog' = tLog \o last'.reports
               /\ last'.calls[1].err = Nil => last'.reports = <<>>
               /\ last'.calls[1].err # Nil
                    => /\ Len(last'.reports) = 1
                       /\ last'.reports[1].level = "Errorf"
                       /\ last'.reports[1].err = last'.calls[1].err
                       /\ tFailed']_vars

\* The callback of a bucket that MakeBucket made has been invoked twice: the
\* first invocation removed the bucket, the second called remove again and
\* reported its error.
C5_Witness ==
    /\ invocations = 2
    /\ last.op = "callback"
    /\ ExistsReturned(made[last.origin].calls, FALSE)
    /\ Cardinality({i \in CallsOf(calls, "RemoveBucket") : calls[i].bucket = last.bucket}) = 2
    /\ last.calls[1].err = ErrNoSuchBucket
    /\ Len(tLog) = 1

\* C6: an error of exists is returned with a nil callback, without a call of
\* make or remove; an error of make is returned with a nil callback, without
\* a call of remove; the callback is non-nil exactly when the error is nil.
C6_ErrorPaths ==
    [][MakeBucketStep
          => /\ ExistsFailed(last'.calls)
                  => /\ last'.err = last'.calls[1].err
                     /\ last'.cb = NilCallback
                     /\ Len(last'.calls) = 1
             /\ (ExistsReturned(last'.calls, FALSE) /\ Len(last'.calls) >= 2
                 /\ last'.calls[2].err # Nil)
                  => /\ last'.err = last'.calls[2].err
                     /\ last'.cb = NilCallback
                     /\ CallsOf(last'.calls, "RemoveBucket") = {}
             /\ (last'.cb # NilCallback) <=> (last'.err = Nil)]_vars

\* MakeBucket has returned the error of make, and no callback.
C6_Witness ==
    /\ last.op = "MakeBucket"
    /\ ExistsReturned(last.calls, FALSE)
    /\ Len(last.calls) = 2
    /\ last.calls[2].err = ErrRequest
    /\ last.err = ErrRequest
    /\ last.cb = NilCallback

-----------------------------------------------------------------------------
(* The test and benchmark functions *)

\* One statement group of a test body: a request op on object (copied from
\* src), what the body does when the request fails (t.Fatalf, or t.Errorf
\* and continue past the next skip groups of the loop body), whether a
\* successful request is followed by defer s3.RemoveObject, and the report
\* of the comparison that follows the request ("" when there is none).
\* op "local" is a call that sends no request (encrypt.NewSSEKMS,
\* minio.NewDestinationInfo); op "defer close" is defer close(doneCh).
StepOf(op, object, src, onErr, skip, cleanup, check) ==
    [op |-> op, object |-> object, src |-> src, onErr |-> onErr, skip |-> skip,
     cleanup |-> cleanup, check |-> check]

PutObject(object, cleanup, check) == StepOf("PutObject", object, "", "Fatalf", 0, cleanup, check)
CopyObject(src, dst, cleanup) == StepOf("CopyObject", dst, src, "Fatalf", 0, cleanup, "")
GetObject(object, onErr, check) == StepOf("GetObject", object, "", onErr, 0, FALSE, check)
StatObject(object, check) == StepOf("StatObject", object, "", "Fatalf", 0, FALSE, check)
ListObjects(check) == StepOf("ListObjects", "", "", "Errorf", 0, FALSE, check)
Local(what, onErr, skip) == StepOf("local", what, "", onErr, skip, FALSE, "")
DeferClose == StepOf("defer close", "", "", "Fatalf", 0, FALSE, "")

\* s repeated n times
RECURSIVE Repeat(_, _)
Repeat(s, n) == IF n = 0 THEN <<>> ELSE s \o Repeat(s, n - 1)

\* the sequences that hold every element of the set S once
RECURSIVE Orders(_)
Orders(S) ==
    IF S = {} THEN {<<>>}
    ELSE UNION {{<<x>> \o rest : rest \in Orders(S \ {x})} : x \in S}

\* "object-" + strconv.Itoa(i)
ObjectName(i) == <<"object-0", "object-1", "object-2">>[i + 1]

NotComplete == "Failed to complete object"
NotEqual == "Download object does not match upload object"

\* len(encryptedRangeGetTests)
RangeGetTests == 7
\* len(customerKeyRotationTests)
KeyRotationTests == 4

\* testEncryptedGet: for each entry of encryptedGetTests (S3, SSEC)
testEncryptedGet ==
    <<PutObject(ObjectName(0), TRUE, NotComplete), GetObject(ObjectName(0), "Errorf", NotEqual),
      PutObject(ObjectName(1), TRUE, NotComplete), GetObject(ObjectName(1), "Errorf", NotEqual)>>

\* testEncryptedRangeGet: one upload, one ranged download for each entry
testEncryptedRangeGet ==
    <<PutObject("object-1", TRUE, "")>>
        \o Repeat(<<GetObject("object-1", "Errorf", NotEqual)>>, RangeGetTests)

\* testEncryptedPut: for each entry of encryptedPutTests (S3, SSEC, KMS)
testEncryptedPut ==
    <<PutObject(ObjectName(0), TRUE, NotComplete),
      PutObject(ObjectName(1), TRUE, NotComplete),
      Local("encrypt.NewSSEKMS", "Errorf", 1),
      PutObject(ObjectName(2), TRUE, NotComplete)>>

TestEncryptedObjectEtag ==
    <<PutObject("object-1", TRUE, ""),
      StatObject("object-1", "Content-MD5 must not match etag for SSE-C encrypted objects")>>

\* TestListObjectStorageClass: range over the map listObjectStorageClassTests
\* visits the three objects in an order the runtime chooses.
TestListObjectStorageClass ==
    {uploads \o <<DeferClose, ListObjects("ListObject showed only")>> :
        uploads \in {[i \in 1..3 |-> PutObject(order[i], TRUE, "")] :
                        order \in Orders({"object-0", "object-1", "object-2"})}}

BenchmarkEncryptedPut ==
    <<PutObject("object-1", TRUE, "")>> \o Repeat(<<PutObject("object-1", FALSE, "")>>, BenchN)

BenchmarkEncryptedGet ==
    <<PutObject("object-1", TRUE, "")>>
        \o Repeat(<<GetObject("object-1", "Fatalf", "")>>, BenchN)

BenchmarkEncryptedCopy ==
    <<PutObject("object-1-src", TRUE, ""),
      Local("minio.NewDestinationInfo", "Fatalf", 0),
      CopyObject("object-1-src", "object-1-dst", TRUE)>>
        \o Repeat(<<CopyObject("object-1-src", "object-1-dst", FALSE)>>, BenchN)

TestCustomerEncryptedCopy ==
    <<Local("minio.NewDestinationInfo", "Fatalf", 0),
      PutObject("src-object-1", TRUE, ""),
      CopyObject("src-object-1", "dst-object-1", TRUE),
      Local("minio.NewDestinationInfo", "Fatalf", 0),
      CopyObject("dst-object-1", "dst-object-2", TRUE),
      Local("minio.NewDestinationInfo", "Fatalf", 0),
      CopyObject("dst-object-2", "dst-object-3", TRUE)>>

\* TestCustomerKeyRotation: no entry of the table has ShouldFail set.
TestCustomerKeyRotation ==
    <<PutObject("object-1", TRUE, "")>>
        \o Repeat(<<Local("minio.NewDestinationInfo", "Fatalf", 0),
                    CopyObject("object-1", "object-1", FALSE),
                    GetObject("object-1", "Fatalf", NotEqual)>>, KeyRotationTests)

\* The functions: the prefix of the bucket name, whether the function skips
\* when NoTLS is set, the secure argument of minio.New, and the bodies it can
\* run after MakeBucket.
Scenarios ==
    {[name |-> "TestEncryptedGet", prefix |-> "test-encrypted-get",
      skipIfNoTLS |-> TRUE, secure |-> "true", bodies |-> {testEncryptedGet}],
     [name |-> "TestEncryptedRangeGet", prefix |-> "test-encrypted-range-get",
      skipIfNoTLS |-> TRUE, secure |-> "true", bodies |-> {testEncryptedRangeGet}],
     [name |-> "TestListObjectStorageClass", prefix |-> "test-list-object-storage-class",
      skipIfNoTLS |-> FALSE, secure |-> "!NoTLS", bodies |-> TestListObjectStorageClass],
     [name |-> "BenchmarkEncryptedPut", prefix |-> "bench-encrypted-put",
      skipIfNoTLS |-> TRUE, secure |-> "true", bodies |-> {BenchmarkEncryptedPut}],
     [name |-> "BenchmarkEncryptedGet", prefix |-> "bench-encrypted-get",
      skipIfNoTLS |-> TRUE, secure |-> "true", bodies |-> {BenchmarkEncryptedGet}],
     [name |-> "BenchmarkEncryptedCopy", prefix |-> "bench-encrypted-copy",
      skipIfNoTLS |-> TRUE, secure |-> "true", bodies |-> {BenchmarkEncryptedCopy}],
     [name |-> "TestEncryptedPut", prefix |-> "test-encrypted-put",
      skipIfNoTLS |-> FALSE, secure |-> "true", bodies |-> {testEncryptedPut}],
     [name |-> "TestEncryptedObjectEtag", prefix |-> "test-encrypted-object-etag",
      skipIfNoTLS |-> FALSE, secure |-> "true", bodies |-> {TestEncryptedObjectEtag}],
     [name |-> "TestCustomerEncryptedCopy", prefix |-> "test-customer-encrypted-copy",
      skipIfNoTLS |-> TRUE, secure |-> "true", bodies |-> {TestCustomerEncryptedCopy}],
     [name |-> "TestCustomerKeyRotation", prefix |-> "test-customer-key-rotation",
      skipIfNoTLS |-> TRUE, secure |-> "true", bodies |-> {TestCustomerKeyRotation}]}

\* rand.Read(random[:]); hex.EncodeToString(random[:])
HexSuffixes == {"00000000", "a1b2c3d4"}

\* BucketName(prefix), with the random suffix drawn
BucketName(prefix, random) == prefix \o "-" \o random

-----------------------------------------------------------------------------
(* A run of one test or benchmark function *)

ErrLocal == "invalid argument"
ErrNewClient == "invalid endpoint"

\* The deferred calls of a test function: the callback of MakeBucket,
\* s3.RemoveObject(bucket, object, client.RemoveObject, t), close(doneCh).
DeferCallback(cb) == [fn |-> cb.fn, bucket |-> cb.bucket, object |-> ""]
DeferredClose == [fn |-> "close", bucket |-> "", object |-> ""]

\* A removal deferred for the bucket, whatever the object is.
DeferRemoveObjectUnnamed(bucket, object) == [fn |-> "RemoveObject", bucket |-> bucket, object |-> ""]

DeferRemoveObject(bucket, object) == [fn |-> "RemoveObject", bucket |-> bucket, object |-> object]

\* defer that puts the call before the calls deferred earlier.
PushDeferInFront(ds, d) == <<d>> \o ds

\* defer d: the call is put on the stack of deferred calls ds.
PushDefer(ds, d) == Append(ds, d)

\* The deferred calls left when the last one deferred has run.
PopDefer(ds) == SubSeq(ds, 1, Len(ds) - 1)

\* The request of step s on bucket b: the objects afterwards, the error and
\* the request as the server saw it.
RunStep(s, b, bks, objs, fault) ==
    LET r == CASE s.op = "PutObject" -> ClientPutObject(bks, objs, b, s.object, fault)
               [] s.op = "CopyObject" -> ClientCopyObject(bks, objs, b, s.src, s.object, fault)
               [] s.op \in {"GetObject", "StatObject"} -> ClientRead(bks, objs, b, s.object, fault)
               [] s.op = "ListObjects" -> ClientRead(bks, objs, b, "", fault)
               [] s.op = "local" -> [objects |-> objs, err |-> IF fault THEN ErrLocal ELSE Nil]
               [] OTHER -> [objects |-> objs, err |-> Nil]
    IN  [objects |-> r.objects, err |-> r.err,
         calls |-> IF s.op \in {"local", "defer close"} THEN <<>>
                   ELSE <<Call(s.op, b, s.object, FALSE, r.err)>>]

\* The deferred call d: the requests made, buckets and objects afterwards,
\* and the reports to t.
RunDeferred(d, bks, objs, fault) ==
    IF d.fn = "RemoveObject"
    THEN LET r == RemoveObject(d.bucket, d.object, bks, objs, fault)
         IN  [calls |-> r.calls, buckets |-> bks, objects |-> r.objects, reports |-> r.reports]
    ELSE IF d.fn = "close"
    THEN [calls |-> <<>>, buckets |-> bks, objects |-> objs, reports |-> <<>>]
    ELSE LET r == RunCallback([fn |-> d.fn, bucket |-> d.bucket], bks, objs, fault)
         IN  [calls |-> r.calls, buckets |-> r.buckets, objects |-> objs, reports |-> r.reports]

\* if err := s3.Parse(); err != nil { t.Fatal(err) }: the call of Parse
TestParse ==
    /\ pc = "start"
    /\ parseCalls = 0
    /\ Parse

\* From the return of Parse to the client: t.Fatal on the error of Parse,
\* t.Skip when the function tests NoTLS, minio.New.
Begin ==
    /\ pc = "start"
    /\ parseCalls = 1
    /\ \E fault \in BOOLEAN :
          LET reports == IF parseRet # Nil THEN <<Fatalf("Parse", "", parseRet)>>
                         ELSE IF scenario.skipIfNoTLS /\ NoTLS
                         THEN <<Skip("Skipping test because of -disableTLS flag")>>
                         ELSE IF fault
                         THEN <<Fatalf("Failed to create client", Endpoint, ErrNewClient)>>
                         ELSE <<>>
          IN  /\ tLog' = tLog \o reports
              /\ tFailed' = FailedAfter(tFailed, reports)
              /\ outcome' = IF reports # <<>> /\ reports[1].level = "Skip"
                            THEN "skipped" ELSE outcome
              /\ pc' = IF reports # <<>> THEN "teardown" ELSE "setup"
    /\ UNCHANGED <<cfgVars, parseVars, sizeVars, dataVars, serverVars, helperVars, scenario, steps,
                   ip, defers, created>>

\* if remove, err := s3.MakeBucket(...); err != nil { t.Fatalf(...) }
\* else { defer remove(t) }
Setup ==
    /\ pc = "setup"
    /\ \E existsFault \in BOOLEAN, makeFault \in BOOLEAN :
          LET r == MakeBucket(scenario.bucket, buckets, existsFault, makeFault)
              reports == IF r.err # Nil
                         THEN <<Fatalf("Failed to create bucket", scenario.bucket, r.err)>>
                         ELSE <<>>
          IN  /\ buckets' = r.buckets
              /\ calls' = calls \o r.calls
              /\ tLog' = tLog \o reports
              /\ tFailed' = FailedAfter(tFailed, reports)
              /\ defers' = IF r.err # Nil THEN defers ELSE PushDefer(defers, DeferCallback(r.cb))
              /\ pc' = IF r.err # Nil THEN "teardown" ELSE "body"
              /\ ip' = IF r.err # Nil THEN ip ELSE 1
    /\ UNCHANGED <<cfgVars, parseVars, sizeVars, dataVars, objects, helperVars, scenario, steps,
                   outcome, created>>

\* The next statement group of the body; bad: the comparison that follows a
\* successful request finds a difference.
Step ==
    /\ pc = "body"
    /\ ip <= Len(steps)
    /\ \E fault \in BOOLEAN, bad \in BOOLEAN :
          LET s == steps[ip]
              r == RunStep(s, scenario.bucket, buckets, objects, fault)
              failed == r.err # Nil
              reports == IF failed /\ s.onErr = "Fatalf"
                         THEN <<Fatalf(s.op, s.object, r.err)>>
                         ELSE IF failed THEN <<Errorf(s.op, s.object, r.err)>>
                         ELSE IF bad /\ s.check # "" THEN <<Errorf(s.check, s.object, Nil)>>
                         ELSE <<>>
          IN  /\ objects' = r.objects
              /\ calls' = calls \o r.calls
              /\ tLog' = tLog \o reports
              /\ tFailed' = FailedAfter(tFailed, reports)
              /\ pc' = IF failed /\ s.onErr = "Fatalf" THEN "teardown" ELSE pc
              /\ ip' = IF failed /\ s.onErr = "Fatalf" THEN ip
                       ELSE IF failed THEN ip + 1 + s.skip
                       ELSE ip + 1
              /\ defers' = IF failed THEN defers
                           ELSE IF s.cleanup
                           THEN PushDefer(defers, DeferRemoveObject(scenario.bucket, s.object))
                           ELSE IF s.op = "defer close" THEN PushDefer(defers, DeferredClose)
                           ELSE defers
              /\ created' = IF ~failed /\ s.op \in {"PutObject", "CopyObject"}
                            THEN created \cup {s.object} ELSE created
    /\ UNCHANGED <<cfgVars, parseVars, sizeVars, dataVars, buckets, helperVars, scenario, steps, outcome>>

\* The body has run to its end: the function returns.
Return ==
    /\ pc = "body"
    /\ ip > Len(steps)
    /\ pc' = "teardown"
    /\ UNCHANGED <<cfgVars, parseVars, sizeVars, dataVars, serverVars, testVars, helperVars, scenario,
                   steps, ip, defers, outcome, created>>

\* The function has returned, or t.Fatalf or t.Skip has ended it: the last
\* deferred call that has not run yet runs.
Deferred ==
    /\ pc = "teardown"
    /\ defers # <<>>
    /\ \E fault \in BOOLEAN :
          LET r == RunDeferred(defers[Len(defers)], buckets, objects, fault)
          IN  /\ buckets' = r.buckets
              /\ objects' = r.objects
              /\ calls' = calls \o r.calls
              /\ tLog' = tLog \o r.reports
              /\ tFailed' = FailedAfter(tFailed, r.reports)
    /\ defers' = PopDefer(defers)
    /\ UNCHANGED <<cfgVars, parseVars, sizeVars, dataVars, helperVars, scenario, steps, pc, ip,
                   outcome, created>>

\* Every deferred call has run: the test is over.
Finish ==
    /\ pc = "teardown"
    /\ defers = <<>>
    /\ pc' = "end"
    /\ outcome' = IF outcome = "skipped" THEN "skipped"
                  ELSE IF tFailed THEN "failed" ELSE "passed"
    /\ UNCHANGED <<cfgVars, parseVars, sizeVars, dataVars, serverVars, testVars, helperVars, scenario,
                   steps, ip, defers, created>>

\* The command lines of a test run: the keys given, or the access key
\* missing; with and without -disableTLS.
TestCommandLines ==
    {[server |-> NotGiven, access |-> a, secret |-> "flag-value", insecure |-> TRUE,
      disableTLS |-> d, size |-> NotGiven, sizeMultipart |-> NotGiven] :
        a \in {NotGiven, "flag-value"}, d \in BOOLEAN}

InitScenario ==
    /\ \E a \in TestCommandLines : Started(a, [n \in EnvNames |-> Unset])
    /\ NoSet
    /\ \E sc \in Scenarios, random \in HexSuffixes :
          /\ scenario = [name |-> sc.name, skipIfNoTLS |-> sc.skipIfNoTLS,
                         secure |-> sc.secure, bucket |-> BucketName(sc.prefix, random)]
          /\ steps \in sc.bodies
    /\ buckets \in {{}, {scenario.bucket}}
    /\ objects = {}
    /\ calls = <<>>
    /\ tLog = <<>>
    /\ tFailed = FALSE
    /\ made = <<>>
    /\ last = NoHelperCall
    /\ invocations = 0
    /\ pc = "start"
    /\ ip = 0
    /\ defers = <<>>
    /\ outcome = "none"
    /\ created = {}
    /\ store = NoObjects
    /\ served = <<>>

NextScenario == TestParse \/ Begin \/ Setup \/ Step \/ Return \/ Deferred \/ Finish

SpecScenario == InitScenario /\ [][NextScenario]_vars

-----------------------------------------------------------------------------
(* Properties of the test and benchmark functions *)

\* C9: when NoTLS is set, a function that builds its client with secure =
\* true sends no request to the server, and ends skipped when Parse
\* returned nil.
C9_TLSTestsSkipped ==
    (NoTLS /\ scenario.secure = "true")
        => /\ calls = <<>>
           /\ (pc = "end" /\ parseRet = Nil) => outcome = "skipped"

\* The requests fn of cs that failed; the reports what in the log rs.
FailedCalls(cs, fn) == {i \in CallsOf(cs, fn) : cs[i].err # Nil}
ReportsOf(rs, what) == {i \in 1..Len(rs) : rs[i].level = "Errorf" /\ rs[i].what = what}

\* The step is a deferred removal whose request failed.
RemovalFailedStep ==
    /\ pc = "teardown"
    /\ Len(calls') = Len(calls) + 1
    /\ calls'[Len(calls')].fn \in {"RemoveObject", "RemoveBucket"}
    /\ calls'[Len(calls')].err # Nil

\* At the end of a function: the removal of every object that an upload or
\* a copy created has been attempted, and so has the removal of the bucket
\* when MakeBucket made it; every failed removal has its t.Errorf report;
\* the function has failed when a failure was recorded.
TeardownDone ==
    /\ \A o \in created :
          \E i \in CallsOf(calls, "RemoveObject") :
              calls[i].bucket = scenario.bucket /\ calls[i].arg = o
    /\ (\E i \in CallsOf(calls, "MakeBucket") : calls[i].err = Nil)
          => \E j \in CallsOf(calls, "RemoveBucket") : calls[j].bucket = scenario.bucket
    /\ Cardinality(FailedCalls(calls, "RemoveObject"))
          = Cardinality(ReportsOf(tLog, "Failed to remove object"))
    /\ Cardinality(FailedCalls(calls, "RemoveBucket"))
          = Cardinality(ReportsOf(tLog, "Failed to remove bucket"))
    /\ tFailed => outcome = "failed"

\* C10: a removal that fails is reported with t.Errorf and leaves the
\* remaining deferred removals to run; a recorded failure is never cleared;
\* when the function is over, the removal of every created object and of the
\* created bucket has been attempted.
C10_TeardownBestEffort ==
    [][/\ RemovalFailedStep
            => /\ Len(tLog') = Len(tLog) + 1
               /\ tLog'[Len(tLog')].level = "Errorf"
               /\ tLog'[Len(tLog')].err = calls'[Len(calls')].err
               /\ tFailed'
               /\ pc' = "teardown"
               /\ defers' = PopDefer(defers)
       /\ tFailed => tFailed'
       /\ pc' = "end" => TeardownDone']_vars

\* A function is over that failed in its body, created two objects and made
\* its bucket: the first removal of an object failed and was followed by the
\* removal of the other object and of the bucket.
C10_Witness ==
    /\ pc = "end"
    /\ outcome = "failed"
    /\ \E r \in 1..Len(tLog) : tLog[r].level = "Fatalf"
    /\ \E i \in FailedCalls(calls, "RemoveObject") :
          /\ \A h \in CallsOf(calls, "RemoveObject") : h >= i
          /\ \E j \in CallsOf(calls, "RemoveObject") : j > i /\ calls[j].arg # calls[i].arg
          /\ \E k \in CallsOf(calls, "RemoveBucket") : k > i
    /\ Cardinality(created) >= 2

-----------------------------------------------------------------------------
(* Error values; ErrorCode and ErrorMessage, src/s3.go:181-201 *)

\* An error value: the nil error, a minio.ErrorResponse with its Code and
\* Message, a pointer to one, or an error of another type with its text.
NilError == [type |-> "nil", Code |-> "", Message |-> "", text |-> ""]
ErrorResponse(code, message) ==
    [type |-> "minio.ErrorResponse", Code |-> code, Message |-> message, text |-> message]
ErrorResponsePtr(code, message) ==
    [type |-> "*minio.ErrorResponse", Code |-> code, Message |-> message, text |-> message]
OtherError(text) == [type |-> "*errors.errorString", Code |-> "", Message |-> "", text |-> text]

\* errResp, ok := err.(minio.ErrorResponse)
IsErrorResponse(err) == err.type = "minio.ErrorResponse"

\* ErrorCode whose flag is set for every non-nil error.
ErrorCodeOfAnyError(err) ==
    IF err.type # "nil" THEN [value |-> err.Code, ok |-> TRUE] ELSE [value |-> "", ok |-> FALSE]

\* ErrorCode(err)
ErrorCode(err) ==
    IF IsErrorResponse(err) THEN [value |-> err.Code, ok |-> TRUE] ELSE [value |-> "", ok |-> FALSE]

\* ErrorMessage(err)
ErrorMessage(err) ==
    IF IsErrorResponse(err) THEN [value |-> err.Message, ok |-> TRUE]
    ELSE [value |-> "", ok |-> FALSE]

-----------------------------------------------------------------------------
(* TestCustomerKeyRotation and the keys of the object it rotates *)

\* encrypt.ServerSide values of the table: nil (no encryption), the key
\* derived from "my-passowrd" and "my-salt", the SSE-C key of 32 zero bytes,
\* the SSE-C key "32-byte SSE-C secret encryption.".
NoKey == "nil"
KeyPBKDF == "DefaultPBKDF(my-passowrd, my-salt)"
KeyZero == "SSE-C(make([]byte, 32))"
KeySecret == "SSE-C(32-byte SSE-C secret encryption.)"

RotationTest(old, new, shouldFail, errMessage) ==
    [Old |-> old, New |-> new, ShouldFail |-> shouldFail, ErrMessage |-> errMessage]

\* customerKeyRotationTests with the server-side decrypt and encrypt entries
\* in the other order.
customerKeyRotationTestsReordered ==
    <<RotationTest(KeyPBKDF, KeyZero, FALSE, ""),
      RotationTest(KeyZero, KeyZero, FALSE, ""),
      RotationTest(NoKey, KeySecret, FALSE, ""),
      RotationTest(KeyZero, NoKey, FALSE, "")>>

\* customerKeyRotationTests, src/unnamed/part_001:88-100
customerKeyRotationTests ==
    <<RotationTest(KeyPBKDF, KeyZero, FALSE, ""),
      RotationTest(KeyZero, KeyZero, FALSE, ""),
      RotationTest(KeyZero, NoKey, FALSE, ""),
      RotationTest(NoKey, KeySecret, FALSE, "")>>

\* customerKeyRotationTests as of src/unnamed/part_000:85-96, which has no
\* ErrMessage
customerKeyRotationTestsWithFailing ==
    customerKeyRotationTests
        \o <<RotationTest(NoKey, KeyZero, TRUE, ""),
             RotationTest(NoKey, NoKey, TRUE, ""),
             RotationTest(KeyZero, KeyZero, TRUE, "")>>

\* make([]byte, size)
MakeBytes(size) == [i \in 1..size |-> 0]

\* The server's answers to a copy: it follows the rule (accept exactly when
\* the source key is the key the object is stored under), it decides the
\* other way, or it follows the rule and damages the content it re-stores.
CopyBehaviours == {"rule", "other way", "damaging"}

\* Content that differs from data.
Damaged(data) == IF data = <<>> THEN <<1>> ELSE [data EXCEPT ![1] = 1 - data[1]]

ErrAccessDenied ==
    ErrorResponse("AccessDenied", "The object was stored using a form of Server Side Encryption. The correct parameters must be provided to retrieve the object")

\* client.CopyObject(dst, src) of an object onto itself: held is what the
\* server holds for it, old and new the keys of src and dst.
ServerCopy(held, old, new, behaviour) ==
    LET accept == IF behaviour = "other way" THEN old # held.sse ELSE old = held.sse
    IN  IF accept
        THEN [err |-> NilError,
              held |-> [sse |-> new,
                        data |-> IF behaviour = "damaging" THEN Damaged(held.data)
                                 ELSE held.data]]
        ELSE [err |-> ErrAccessDenied, held |-> held]

\* client.GetObject(bucket, object, {ServerSideEncryption: key}) and
\* ioutil.ReadAll: the content when the key is the key the object is stored
\* under.
ServerGet(held, key) ==
    IF key = held.sse THEN [err |-> NilError, content |-> held.data]
    ELSE [err |-> ErrAccessDenied, content |-> <<>>]

\* switch err = client.CopyObject(dst, src); { ... }: the reports of the
\* test; checksMessage: the version of the test that has the case
\* err != nil && test.ShouldFail.
RotationCopyReports(test, err, checksMessage, i) ==
    IF err # NilError /\ test.ShouldFail
    THEN IF checksMessage /\ ErrorMessage(err).ok /\ ErrorMessage(err).value # test.ErrMessage
         THEN <<Errorf("Should fail because of", test.ErrMessage, ErrorMessage(err).value)>>
         ELSE <<>>
    ELSE IF err # NilError /\ ~test.ShouldFail
    THEN <<Fatalf("Failed to copy object", "object-1", err.text)>>
    ELSE IF err = NilError /\ test.ShouldFail
    THEN <<Fatalf("test should fail but passed successfully", "object-1", Nil)>>
    ELSE <<>>

\* The reports of the download that follows a copy.
RotationGetReports(r, data) ==
    IF r.err # NilError THEN <<Fatalf("Failed to get object", "object-1", r.err.text)>>
    ELSE IF r.content # data
    THEN <<Errorf("Download object does not match upload object", "object-1", Nil)>>
    ELSE <<>>

\* t.Fatalf among the reports rs: the test function ends.
Aborted(rs) == \E i \in 1..Len(rs) : rs[i].level = "Fatalf"

\* An answer of the server as the test saw it: the request with its keys,
\* what the server held for the object before and after, the error and the
\* content returned.
Served(op, old, new, before, after, err, content) ==
    [op |-> op, old |-> old, new |-> new, before |-> before, after |-> after,
     err |-> err, content |-> content]

\* Nothing is stored under a name yet.
NotStored == [sse |-> NoKey, data |-> <<>>]

\* client.PutObject(bucket, "object-1", data, {customerKeyRotationTests[0].Old});
\* t.Fatalf on its error
RotationPut ==
    /\ pc = "put"
    /\ \E fault \in BOOLEAN :
          LET held == [sse |-> steps[1].Old, data |-> scenario.data]
              reports == IF fault THEN <<Fatalf("Failed to create object", "object-1", ErrRequest)>>
                         ELSE <<>>
          IN  /\ store' = IF fault THEN store ELSE ("object-1" :> held)
              /\ served' = Append(served,
                                  Served("PutObject", NoKey, steps[1].Old, NotStored,
                                         IF fault THEN NotStored ELSE held,
                                         IF fault THEN OtherError(ErrRequest) ELSE NilError, <<>>))
              /\ tLog' = tLog \o reports
              /\ tFailed' = FailedAfter(tFailed, reports)
              /\ pc' = IF fault THEN "end" ELSE "copy"
              /\ ip' = IF fault THEN ip ELSE 1
              /\ outcome' = IF fault THEN "failed" ELSE outcome
    /\ UNCHANGED <<cfgVars, parseVars, sizeVars, serverVars, helperVars, scenario, steps,
                   defers, created>>

\* The copy of entry ip of the table and the switch on its error
RotationCopy ==
    /\ pc = "copy"
    /\ ip <= Len(steps)
    /\ \E behaviour \in CopyBehaviours :
          LET test == steps[ip]
              held == store["object-1"]
              r == ServerCopy(held, test.Old, test.New, behaviour)
              reports == RotationCopyReports(test, r.err, scenario.checksMessage, ip - 1)
          IN  /\ store' = ("object-1" :> r.held)
              /\ served' = Append(served, Served("CopyObject", test.Old, test.New, held,
                                                 r.held, r.err, <<>>))
              /\ tLog' = tLog \o reports
              /\ tFailed' = FailedAfter(tFailed, reports)
              /\ pc' = IF Aborted(reports) THEN "end"
                       ELSE IF ~test.ShouldFail THEN "get" ELSE "copy"
              /\ ip' = IF Aborted(reports) \/ ~test.ShouldFail THEN ip ELSE ip + 1
              /\ outcome' = IF Aborted(reports) THEN "failed" ELSE outcome
    /\ UNCHANGED <<cfgVars, parseVars, sizeVars, serverVars, helperVars, scenario, steps,
                   defers, created>>

\* if !test.ShouldFail: the download under test.New and its comparison
RotationGet ==
    /\ pc = "get"
    /\ LET test == steps[ip]
           held == store["object-1"]
           r == ServerGet(held, test.New)
           reports == RotationGetReports(r, scenario.data)
       IN  /\ served' = Append(served, Served("GetObject", test.New, test.New, held, held,
                                              r.err, r.content))
           /\ tLog' = tLog \o reports
           /\ tFailed' = FailedAfter(tFailed, reports)
           /\ pc' = IF Aborted(reports) THEN "end" ELSE "copy"
           /\ ip' = IF Aborted(reports) THEN ip ELSE ip + 1
           /\ outcome' = IF Aborted(reports) THEN "failed" ELSE outcome
    /\ UNCHANGED <<cfgVars, parseVars, sizeVars, serverVars, helperVars, scenario, steps,
                   defers, created, store>>

\* The loop over the table has ended.
RotationReturn ==
    /\ pc = "copy"
    /\ ip > Len(steps)
    /\ pc' = "end"
    /\ outcome' = IF tFailed THEN "failed" ELSE "passed"
    /\ UNCHANGED <<cfgVars, parseVars, sizeVars, serverVars, testVars, helperVars, scenario,
                   steps, ip, defers, created, dataVars>>

\* The two versions of the test, with their tables and payloads.
RotationScenarios ==
    {[name |-> "TestCustomerKeyRotation", source |-> "part_001", checksMessage |-> TRUE,
      table |-> customerKeyRotationTests],
     [name |-> "TestCustomerKeyRotation", source |-> "part_000", checksMessage |-> FALSE,
      table |-> customerKeyRotationTestsWithFailing]}

InitRotation ==
    /\ Started(NoFlags, [n \in EnvNames |-> Unset])
    /\ NoSet
    /\ \E sc \in RotationScenarios, size \in 1..MaxPayload :
          /\ scenario = [name |-> sc.name, source |-> sc.source,
                         checksMessage |-> sc.checksMessage, data |-> MakeBytes(size)]
          /\ steps = sc.table
    /\ buckets = {}
    /\ objects = {}
    /\ calls = <<>>
    /\ tLog = <<>>
    /\ tFailed = FALSE
    /\ made = <<>>
    /\ last = NoHelperCall
    /\ invocations = 0
    /\ pc = "put"
    /\ ip = 0
    /\ defers = <<>>
    /\ outcome = "none"
    /\ created = {}
    /\ store = NoObjects
    /\ served = <<>>

NextRotation == RotationPut \/ RotationCopy \/ RotationGet \/ RotationReturn

SpecRotation == InitRotation /\ [][NextRotation]_vars

-----------------------------------------------------------------------------
(* Properties of TestCustomerKeyRotation *)

\* The answers of the server to the requests op, in the order given.
ServedOf(op) == SelectSeq(served, LAMBDA a : a.op = op)

\* The server accepts a copy exactly when the source key is the key the
\* object is stored under, re-stores it under the destination key when it
\* accepts and leaves it unchanged when it rejects; the upload is accepted.
FollowsRule(a) ==
    /\ a.op = "CopyObject"
          => /\ (a.err = NilError) <=> (a.old = a.before.sse)
             /\ a.err = NilError => a.after = [sse |-> a.new, data |-> a.before.data]
             /\ a.err # NilError => a.after = a.before
    /\ a.op = "PutObject" => a.err = NilError
RuleFollowed == \A i \in 1..Len(served) : FollowsRule(served[i])

\* The table entries the test has got a copy answered for.
Copied == 1..Len(ServedOf("CopyObject"))

\* C11: the test uploads under the Old key of the first entry and copies in
\* table order; while the server follows the rule, every copy of an entry
\* not marked as failing succeeds and the download after it returns the
\* uploaded bytes, every copy of an entry marked as failing is rejected, the
\* test reports nothing, and it ends passed with every entry copied.
C11_KeyRotation ==
    /\ served # <<>> => /\ served[1].op = "PutObject"
                        /\ served[1].new = steps[1].Old
    /\ \A k \in Copied : /\ ServedOf("CopyObject")[k].old = steps[k].Old
                         /\ ServedOf("CopyObject")[k].new = steps[k].New
    /\ RuleFollowed
          => /\ \A k \in Copied :
                    steps[k].ShouldFail <=> ServedOf("CopyObject")[k].err # NilError
             /\ \A g \in 1..Len(ServedOf("GetObject")) :
                    /\ ServedOf("GetObject")[g].err = NilError
                    /\ ServedOf("GetObject")[g].content = scenario.data
             /\ tLog = <<>>
             /\ pc = "end"
                  => /\ outcome = "passed"
                     /\ Copied = 1..Len(steps)
                     /\ Len(ServedOf("GetObject"))
                          = Cardinality({k \in 1..Len(steps) : ~steps[k].ShouldFail})

\* The test with the failing entries has ended against a server that
\* followed the rule: four downloads, three rejected copies.
C11_Witness ==
    /\ pc = "end"
    /\ RuleFollowed
    /\ Len(steps) = 7
    /\ Len(ServedOf("CopyObject")) = 7
    /\ Len(ServedOf("GetObject")) = 4
    /\ ServedOf("CopyObject")[7].err # NilError
    /\ store["object-1"].sse = KeySecret

-----------------------------------------------------------------------------
(* testEncryptedRangeGet *)

RangeTest(start, end) == [Start |-> start, End |-> end]

\* encryptedRangeGetTests, built from the value size that s3.Size has when
\* the package variables of the test file are initialised
encryptedRangeGetTests(size) ==
    <<RangeTest(0, size),
      RangeTest(0, -size),
      RangeTest(size - 1, 0),
      RangeTest(0, 0),
      RangeTest(1, size),
      RangeTest(0, size \div 2),
      RangeTest(size \div 2, size)>>

\* encryptedMultipartRangeGetTests, built from the value size that
\* s3.MultipartSize has when the package variables of the test file are
\* initialised
encryptedMultipartRangeGetTests(size) ==
    <<RangeTest(0, size),
      RangeTest(0, -size),
      RangeTest(size - 1, 0),
      RangeTest(0, 0),
      RangeTest(1, size),
      RangeTest(0, size \div 2),
      RangeTest(size \div 2, size)>>

\* opts.SetRange(start, end) of minio-go: the Range header it sets, none
\* when it returns its error (which the test drops).
SetRange(start, end) ==
    IF start = 0 /\ end < 0 THEN [kind |-> "last", from |-> 0, to |-> -end]
    ELSE IF 0 < start /\ end = 0 THEN [kind |-> "from", from |-> start, to |-> 0]
    ELSE IF 0 <= start /\ start <= end THEN [kind |-> "span", from |-> start, to |-> end]
    ELSE [kind |-> "none", from |-> 0, to |-> 0]

\* The byte strings a server can return: every string of 0 and 1 of up to n
\* bytes.
RECURSIVE BytesUpTo(_)
BytesUpTo(n) ==
    IF n = 0 THEN {<<>>}
    ELSE LET shorter == BytesUpTo(n - 1)
         IN  shorter \cup {Append(c, b) : c \in shorter, b \in {0, 1}}

\* start := test.Start; if !bytes.Equal(content, data[start:start+int64(len(content))])
\* { t.Errorf(...) }: "panic" when the slice bounds are out of range.
RangeCheck(data, test, content) ==
    LET start == test.Start
    IN  IF start < 0 \/ start + Len(content) > Len(data) THEN "panic"
        ELSE IF content = SubSeq(data, start + 1, start + Len(content)) THEN "equal"
        ELSE "differ"

\* The answer to the ranged download of entry i as the test saw it.
ServedRange(i, test, err, content, check) ==
    [op |-> "GetObject", entry |-> i, Start |-> test.Start, End |-> test.End,
     range |-> SetRange(test.Start, test.End), err |-> err, content |-> content,
     check |-> check]

\* client.PutObject(bucket, "object-1", data, ...); t.Fatalf on its error
RangePut ==
    /\ pc = "put"
    /\ \E fault \in BOOLEAN :
          LET reports == IF fault THEN <<Fatalf("Failed to upload object", "object-1", ErrRequest)>>
                         ELSE <<>>
          IN  /\ store' = IF fault THEN store
                          ELSE ("object-1" :> [sse |-> "DefaultPBKDF(my-password, bucket+object)",
                                               data |-> scenario.data])
              /\ tLog' = tLog \o reports
              /\ tFailed' = FailedAfter(tFailed, reports)
              /\ pc' = IF fault THEN "end" ELSE "get"
              /\ ip' = IF fault THEN ip ELSE 1
              /\ outcome' = IF fault THEN "failed" ELSE outcome
    /\ UNCHANGED <<cfgVars, parseVars, sizeVars, serverVars, helperVars, scenario, steps,
                   defers, created, served>>

\* One pass of the loop over tests: the ranged download of entry ip, the
\* server answering with an error or with any content, and the comparison.
\* served holds the answer to the entry just handled.
RangeGet ==
    /\ pc = "get"
    /\ ip <= Len(steps)
    /\ \E fault \in BOOLEAN, content \in BytesUpTo(Len(scenario.data) + 1) :
          LET test == steps[ip]
              check == IF fault THEN "error" ELSE RangeCheck(scenario.data, test, content)
              reports == IF fault THEN <<Errorf("Failed get object", "object-1", ErrRequest)>>
                         ELSE IF check = "differ"
                         THEN <<Errorf("Download object data does not match upload object data",
                                       "object-1", Nil)>>
                         ELSE <<>>
          IN  /\ served' = <<ServedRange(ip - 1, test,
                                         IF fault THEN OtherError(ErrRequest) ELSE NilError,
                                         IF fault THEN <<>> ELSE content, check)>>
              /\ tLog' = tLog \o reports
              /\ tFailed' = FailedAfter(tFailed, reports)
              /\ pc' = IF check = "panic" THEN "end" ELSE pc
              /\ ip' = IF check = "panic" THEN ip ELSE ip + 1
              /\ outcome' = IF check = "panic" THEN "panicked" ELSE outcome
    /\ UNCHANGED <<cfgVars, parseVars, sizeVars, serverVars, helperVars, scenario, steps,
                   defers, created, store>>

\* The loop over tests has ended.
RangeReturn ==
    /\ pc = "get"
    /\ ip > Len(steps)
    /\ pc' = "end"
    /\ outcome' = IF tFailed THEN "failed" ELSE "passed"
    /\ UNCHANGED <<cfgVars, parseVars, sizeVars, serverVars, testVars, helperVars, scenario,
                   steps, ip, defers, created, dataVars>>

\* The arguments of testEncryptedRangeGet.  TestEncryptedRangeGet passes
\* s3.Size, of size bytes once Parse has run, and encryptedRangeGetTests,
\* built from the tableSize bytes s3.Size had when the package variables were
\* initialised.  TestEncryptedMultipartRangeGet passes s3.MultipartSize, of
\* size bytes, and the same encryptedRangeGetTests; multipartTableSize is the
\* value s3.MultipartSize had when the package variables were initialised,
\* the larger of the two defaults.
InitRange ==
    /\ Started(NoFlags, [n \in EnvNames |-> Unset])
    /\ NoSet
    /\ \/ \E size \in 1..MaxPayload, tableSize \in 1..MaxPayload :
             /\ scenario = [name |-> "TestEncryptedRangeGet", tableSize |-> tableSize,
                            data |-> MakeBytes(size)]
             /\ steps = encryptedRangeGetTests(tableSize)
       \/ \E size \in 1..MaxPayload, tableSize \in 1..MaxPayload,
             multipartTableSize \in 1..MaxPayload :
             /\ tableSize < multipartTableSize
             /\ scenario = [name |-> "TestEncryptedMultipartRangeGet",
                            tableSize |-> tableSize,
                            multipartTableSize |-> multipartTableSize,
                            data |-> MakeBytes(size)]
             /\ steps = encryptedRangeGetTests(tableSize)
    /\ buckets = {}
    /\ objects = {}
    /\ calls = <<>>
    /\ tLog = <<>>
    /\ tFailed = FALSE
    /\ made = <<>>
    /\ last = NoHelperCall
    /\ invocations = 0
    /\ pc = "put"
    /\ ip = 0
    /\ defers = <<>>
    /\ outcome = "none"
    /\ created = {}
    /\ store = NoObjects
    /\ served = <<>>

NextRange == RangePut \/ RangeGet \/ RangeReturn

SpecRange == InitRange /\ [][NextRange]_vars

-----------------------------------------------------------------------------
(* Properties of testEncryptedRangeGet *)

Min(a, b) == IF a <= b THEN a ELSE b

\* The range can be served from an object of n bytes.
Satisfiable(range, n) == range.kind \in {"from", "span"} => range.from < n

\* The bytes of data that the range asks for.
RequestedSlice(data, range) ==
    LET n == Len(data)
    IN  CASE range.kind = "last" -> SubSeq(data, n - Min(range.to, n) + 1, n)
          [] range.kind = "from" -> SubSeq(data, range.from + 1, n)
          [] range.kind = "span" -> SubSeq(data, range.from + 1, Min(range.to, n - 1) + 1)
          [] OTHER -> data

\* C12: an entry of the range table passes (no report, no panic) only when
\* the content returned is exactly the requested slice of the uploaded
\* bytes, with the requested length.
C12_RangeEntryPasses ==
    \A i \in 1..Len(served) :
        (served[i].op = "GetObject" /\ scenario.name = "TestEncryptedRangeGet"
         /\ served[i].check = "equal")
            => /\ Satisfiable(served[i].range, Len(scenario.data))
               /\ served[i].content = RequestedSlice(scenario.data, served[i].range)

-----------------------------------------------------------------------------
(* testEncryptedGet: upload, download, comparison *)

\* encryptedGetTests, src/sse-get_test.go:20-28
encryptedGetTests ==
    <<[Type |-> "S3", Password |-> ""],
      [Type |-> "SSEC", Password |-> "my-password"]>>

\* switch test.Type { ... }: the encryption of the entry, "unknown" in the
\* default case
EncryptionCase(type) ==
    CASE type = "S3" -> "encrypt.NewSSE()"
      [] type = "SSEC" -> "encrypt.DefaultPBKDF(Password, bucket+object)"
      [] type = "KMS" -> "encrypt.NewSSEKMS(KeyID, Context)"
      [] OTHER -> "unknown"

\* The reports of one pass that ignore the length PutObject returned.
RoundTripReportsIgnoringLength(data, n, fault, content, object) ==
    IF fault THEN <<Errorf("Failed to get object", object, ErrRequest)>>
    ELSE IF data # content
    THEN <<Errorf("Download object does not match upload object", object, Nil)>>
    ELSE <<>>

\* The reports of one pass after a successful upload: n is the length
\* PutObject returned, fault a failed GetObject or ReadAll, content the
\* bytes read.
RoundTripReports(data, n, fault, content, object) ==
    (IF n # Len(data) THEN <<Errorf("Failed to complete object", object, Nil)>> ELSE <<>>)
    \o (IF fault THEN <<Errorf("Failed to get object", object, ErrRequest)>>
        ELSE IF data # content
        THEN <<Errorf("Download object does not match upload object", object, Nil)>>
        ELSE <<>>)

\* The answers to one pass as the test saw them.
ServedRoundTrip(i, sse, putErr, n, getErr, content) ==
    [op |-> "round trip", entry |-> i, object |-> ObjectName(i), sse |-> sse,
     putErr |-> putErr, n |-> n, getErr |-> getErr, content |-> content]

\* One pass of the loop over encryptedGetTests for entry ip.
RoundTrip ==
    /\ pc = "loop"
    /\ ip <= Len(steps)
    /\ \E kmsFault \in BOOLEAN, putFault \in BOOLEAN, getFault \in BOOLEAN,
          n \in 0..Len(scenario.data), content \in BytesUpTo(Len(scenario.data) + 1) :
          LET test == steps[ip]
              object == ObjectName(ip - 1)
              sse == EncryptionCase(test.Type)
              skipped == sse = "unknown" \/ (test.Type = "KMS" /\ kmsFault)
              reports == IF sse = "unknown" THEN <<Errorf("Unknown SSE type", object, Nil)>>
                         ELSE IF skipped
                         THEN <<Errorf("Failed to create KMS server side encryption", object,
                                       ErrLocal)>>
                         ELSE IF putFault
                         THEN <<Fatalf("Failed to upload object", object, ErrRequest)>>
                         ELSE RoundTripReports(scenario.data, n, getFault, content, object)
          IN  /\ served' = IF skipped THEN served
                           ELSE IF putFault
                           THEN Append(served, ServedRoundTrip(ip - 1, sse, OtherError(ErrRequest),
                                                               0, NilError, <<>>))
                           ELSE Append(served,
                                       ServedRoundTrip(ip - 1, sse, NilError, n,
                                                       IF getFault THEN OtherError(ErrRequest)
                                                       ELSE NilError,
                                                       IF getFault THEN <<>> ELSE content))
              /\ store' = IF skipped \/ putFault THEN store
                          ELSE [o \in DOMAIN store \cup {object} |->
                                   IF o = object THEN [sse |-> sse, data |-> scenario.data]
                                   ELSE store[o]]
              /\ tLog' = tLog \o reports
              /\ tFailed' = FailedAfter(tFailed, reports)
              /\ pc' = IF Aborted(reports) THEN "end" ELSE pc
              /\ ip' = IF Aborted(reports) THEN ip ELSE ip + 1
              /\ outcome' = IF Aborted(reports) THEN "aborted" ELSE outcome
    /\ UNCHANGED <<cfgVars, parseVars, sizeVars, serverVars, helperVars, scenario, steps,
                   defers, created>>

\* The loop over encryptedGetTests has ended.
RoundTripReturn ==
    /\ pc = "loop"
    /\ ip > Len(steps)
    /\ pc' = "end"
    /\ outcome' = IF tFailed THEN "failed" ELSE "passed"
    /\ UNCHANGED <<cfgVars, parseVars, sizeVars, serverVars, testVars, helperVars, scenario,
                   steps, ip, defers, created, dataVars>>

InitRoundTrip ==
    /\ Started(NoFlags, [n \in EnvNames |-> Unset])
    /\ NoSet
    /\ \E size \in 1..MaxPayload :
          scenario = [name |-> "TestEncryptedGet", data |-> MakeBytes(size)]
    /\ steps = encryptedGetTests
    /\ buckets = {}
    /\ objects = {}
    /\ calls = <<>>
    /\ tLog = <<>>
    /\ tFailed = FALSE
    /\ made = <<>>
    /\ last = NoHelperCall
    /\ invocations = 0
    /\ pc = "loop"
    /\ ip = 1
    /\ defers = <<>>
    /\ outcome = "none"
    /\ created = {}
    /\ store = NoObjects
    /\ served = <<>>

NextRoundTrip == RoundTrip \/ RoundTripReturn

SpecRoundTrip == InitRoundTrip /\ [][NextRoundTrip]_vars

\* The descriptor an encryption stands for.
DescriptorOf(sse) ==
    CASE sse = "encrypt.NewSSE()" -> "server-managed"
      [] sse = "encrypt.DefaultPBKDF(Password, bucket+object)" -> "customer-key"
      [] sse = "encrypt.NewSSEKMS(KeyID, Context)" -> "KMS-managed"
      [] OTHER -> "none"

\* The reports made about the object name.
ReportsAbout(rs, name) == {i \in 1..Len(rs) : rs[i].name = name}

\* The pass a whose upload succeeded passes exactly when the upload reported
\* the full length and the download gave back the uploaded bytes.
RoundTripEntryRule(a) ==
    a.putErr = NilError =>
        (ReportsAbout(tLog, a.object) = {}
            <=> (a.n = Len(scenario.data) /\ a.getErr = NilError
                 /\ a.content = scenario.data))

\* A run that no failed upload has ended went through every descriptor of ds.
RoundTripCovers(ds) ==
    (pc = "end" /\ outcome # "aborted") =>
        /\ \A d \in ds : \E i \in 1..Len(served) : DescriptorOf(served[i].sse) = d
        /\ Len(served) = Len(steps)

\* C13 as stated: testEncryptedGet uploads and downloads under customer-key,
\* server-managed and none, each pass passing exactly when the upload reported
\* the full length and the downloaded bytes equal the uploaded ones, a failed
\* download or a mismatch being reported and the next descriptor tried.
C13_RoundTripWithNone ==
    /\ \A i \in 1..Len(served) : RoundTripEntryRule(served[i])
    /\ RoundTripCovers({"customer-key", "server-managed", "none"})

\* C13 amended: testEncryptedGet uploads and downloads under the two
\* descriptors of encryptedGetTests, server-managed and customer-key, and under
\* no other; each pass whose upload succeeded passes exactly when the upload
\* reported the full length and the downloaded bytes equal the uploaded ones;
\* a failed download or a mismatch is reported and the next descriptor tried.
C13_RoundTrip ==
    /\ \A i \in 1..Len(served) : RoundTripEntryRule(served[i])
    /\ RoundTripCovers({"customer-key", "server-managed"})
    /\ \A i \in 1..Len(served) :
          DescriptorOf(served[i].sse) \in {"customer-key", "server-managed"}

\* The first descriptor's download failed or differed, it was reported, and
\* the second descriptor was tried and passed.
C13_Witness ==
    /\ pc = "end"
    /\ outcome = "failed"
    /\ Len(served) = 2
    /\ served[1].putErr = NilError
    /\ served[1].content # scenario.data
    /\ ReportsAbout(tLog, served[1].object) # {}
    /\ served[2].putErr = NilError
    /\ served[2].n = Len(scenario.data)
    /\ served[2].content = scenario.data
    /\ ReportsAbout(tLog, served[2].object) = {}

-----------------------------------------------------------------------------
(* TestListObjectStorageClass: the uploads and the check of the listing *)

\* The longest listing the server answers with.
MaxListed == 4

\* listObjectStorageClassTests, src/storage-class_test.go:16-20
listObjectStorageClassTests ==
    [o \in {"object-0", "object-1", "object-2"} |->
        CASE o = "object-0" -> "STANDARD"
          [] o = "object-1" -> "REDUCED_REDUNDANCY"
          [] OTHER -> ""]

DefaultStorageClass == "STANDARD"

\* An entry of the channel client.ListObjects returns.
ObjectInfo(key, class) == [Key |-> key, StorageClass |-> class]

\* The entries a server may list: the uploaded names and another one under
\* either class, and the entry that carries an error (no key, no class).
ListedEntries ==
    {ObjectInfo(k, c) : k \in DOMAIN listObjectStorageClassTests \cup {"object-9"},
                        c \in {"STANDARD", "REDUCED_REDUNDANCY"}}
    \cup {ObjectInfo("", "")}

\* The body of the loop over the listing for one entry: the reports, and
\* whether i is decremented.
ListedCheck(objInfo) ==
    IF objInfo.Key \notin DOMAIN listObjectStorageClassTests
    THEN [reports |-> <<Errorf("was not uploaded", objInfo.Key, Nil)>>, counted |-> FALSE]
    ELSE LET class == IF listObjectStorageClassTests[objInfo.Key] = ""
                      THEN DefaultStorageClass
                      ELSE listObjectStorageClassTests[objInfo.Key]
         IN  IF class # objInfo.StorageClass
             THEN [reports |-> <<Errorf("was not uploaded using storage class", objInfo.Key, Nil)>>,
                   counted |-> FALSE]
             ELSE [reports |-> <<>>, counted |-> TRUE]

\* One pass of the loop over listObjectStorageClassTests: a map is ranged
\* over in any order, so any object not uploaded yet is the next one.  ip
\* holds the counter i.
StoragePut ==
    /\ pc = "put"
    /\ DOMAIN store # DOMAIN listObjectStorageClassTests
    /\ \E object \in DOMAIN listObjectStorageClassTests \ DOMAIN store, fault \in BOOLEAN :
          LET reports == IF fault THEN <<Fatalf("Failed to upload object", object, ErrRequest)>>
                         ELSE <<>>
          IN  /\ store' = IF fault THEN store
                          ELSE [o \in DOMAIN store \cup {object} |->
                                   IF o = object
                                   THEN [class |-> listObjectStorageClassTests[object],
                                         data |-> scenario.data]
                                   ELSE store[o]]
              /\ tLog' = tLog \o reports
              /\ tFailed' = FailedAfter(tFailed, reports)
              /\ ip' = IF fault THEN ip ELSE ip + 1
              /\ pc' = IF fault THEN "end" ELSE pc
              /\ outcome' = IF fault THEN "aborted" ELSE outcome
    /\ UNCHANGED <<cfgVars, parseVars, sizeVars, serverVars, helperVars, scenario, steps,
                   defers, created, served>>

\* Every object is uploaded: client.ListObjects is called.
StorageList ==
    /\ pc = "put"
    /\ DOMAIN store = DOMAIN listObjectStorageClassTests
    /\ pc' = "list"
    /\ UNCHANGED <<cfgVars, parseVars, sizeVars, serverVars, testVars, helperVars, scenario,
                   steps, ip, defers, outcome, created, dataVars>>

\* The channel delivers one more entry, whatever the server lists, and the
\* body of the loop runs for it.
StorageListed ==
    /\ pc = "list"
    /\ Len(served) < MaxListed
    /\ \E objInfo \in ListedEntries :
          LET r == ListedCheck(objInfo)
          IN  /\ served' = Append(served, objInfo)
              /\ tLog' = tLog \o r.reports
              /\ tFailed' = FailedAfter(tFailed, r.reports)
              /\ ip' = IF r.counted THEN ip - 1 ELSE ip
    /\ UNCHANGED <<cfgVars, parseVars, sizeVars, serverVars, helperVars, scenario, steps, pc,
                   defers, outcome, created, store>>

\* The channel is closed: the count is checked and the test returns.
StorageReturn ==
    /\ pc = "list"
    /\ LET reports == IF ip # 0
                      THEN <<Errorf("Uploaded objects but ListObject showed only", "", Nil)>>
                      ELSE <<>>
       IN  /\ tLog' = tLog \o reports
           /\ tFailed' = FailedAfter(tFailed, reports)
           /\ outcome' = IF FailedAfter(tFailed, reports) THEN "failed" ELSE "passed"
    /\ pc' = "end"
    /\ UNCHANGED <<cfgVars, parseVars, sizeVars, serverVars, helperVars, scenario, steps, ip,
                   defers, created, dataVars>>

InitStorageClass ==
    /\ Started(NoFlags, [n \in EnvNames |-> Unset])
    /\ NoSet
    /\ \E size \in 1..MaxPayload :
          scenario = [name |-> "TestListObjectStorageClass", data |-> MakeBytes(size)]
    /\ steps = <<>>
    /\ buckets = {}
    /\ objects = {}
    /\ calls = <<>>
    /\ tLog = <<>>
    /\ tFailed = FALSE
    /\ made = <<>>
    /\ last = NoHelperCall
    /\ invocations = 0
    /\ pc = "put"
    /\ ip = 0
    /\ defers = <<>>
    /\ outcome = "none"
    /\ created = {}
    /\ store = NoObjects
    /\ served = <<>>

NextStorageClass == StoragePut \/ StorageList \/ StorageListed \/ StorageReturn

SpecStorageClass == InitStorageClass /\ [][NextStorageClass]_vars

\* The class object o is to be listed with.
ExpectedClass(o) ==
    IF store[o].class = "" THEN "STANDARD" ELSE store[o].class

\* The listing names every uploaded object, names no other object, and
\* shows each one with the class it was uploaded with.
ListingRight(listing) ==
    /\ \A o \in DOMAIN store : \E i \in 1..Len(listing) : listing[i].Key = o
    /\ \A i \in 1..Len(listing) :
          /\ listing[i].Key \in DOMAIN store
          /\ listing[i].StorageClass = ExpectedClass(listing[i].Key)

\* C14: TestListObjectStorageClass, once the listing is read, passes exactly
\* when the listing contains every uploaded object and no other, each with
\* the class it was uploaded with (STANDARD when none was requested).
C14_StorageClassCheck ==
    (pc = "end" /\ outcome # "aborted") => (outcome = "passed" <=> ListingRight(served))

-----------------------------------------------------------------------------
(* Properties of the defaults *)

\* C15: after the first call of Parse, Endpoint is the value of -server when
\* the flag is on the command line, otherwise the value of SERVER_ENDPOINT
\* when it is exported, otherwise 'localhost:9000'.
C15_EndpointResolution ==
    [][FirstParseStep
          => Endpoint' = IF args.server # NotGiven THEN args.server
                         ELSE IF Exported("SERVER_ENDPOINT") THEN env["SERVER_ENDPOINT"]
                         ELSE "localhost:9000"]_vars

\* C16: when neither -size nor -sizeMultipart is on the command line, after a
\* first call of Parse that returns nil Size is 32KB and MultipartSize is
\* 65MB, as the help texts of the flags say.
C16_DefaultSizes ==
    [][(FirstParseStep /\ args.size = NotGiven /\ args.sizeMultipart = NotGiven
        /\ parseRet' = Nil)
          => /\ Size' = newSizeValue(32 * 1024)
             /\ MultipartSize' = newSizeValue(65 * 1024 * 1024)]_vars

-----------------------------------------------------------------------------
(* RemoveObject and RemoveBucket called on their own *)

\* s3.RemoveObject(bucket, object, client.RemoveObject, t); made records the
\* arguments of the call.
CallRemoveObject ==
    /\ invocations < MaxInvocations
    /\ \E b \in BucketNames, o \in {"object-1", "object-2"}, fault \in BOOLEAN :
          LET r == RemoveObject(b, o, buckets, objects, fault)
          IN  /\ objects' = r.objects
              /\ calls' = calls \o r.calls
              /\ tLog' = tLog \o r.reports
              /\ tFailed' = FailedAfter(tFailed, r.reports)
              /\ made' = Append(made, [op |-> "RemoveObject", bucket |-> b, object |-> o])
              /\ last' = [op |-> "RemoveObject", bucket |-> b, calls |-> r.calls,
                          cb |-> NilCallback, err |-> Nil, reports |-> r.reports,
                          origin |-> 0]
    /\ invocations' = invocations + 1
    /\ UNCHANGED <<cfgVars, parseVars, sizeVars, dataVars, buckets, scenarioVars>>

\* s3.RemoveBucket(bucket, client.RemoveBucket, t)
CallRemoveBucket ==
    /\ invocations < MaxInvocations
    /\ \E b \in BucketNames, fault \in BOOLEAN :
          LET r == RemoveBucket(b, buckets, objects, fault)
          IN  /\ buckets' = r.buckets
              /\ calls' = calls \o r.calls
              /\ tLog' = tLog \o r.reports
              /\ tFailed' = FailedAfter(tFailed, r.reports)
              /\ made' = Append(made, [op |-> "RemoveBucket", bucket |-> b, object |-> ""])
              /\ last' = [op |-> "RemoveBucket", bucket |-> b, calls |-> r.calls,
                          cb |-> NilCallback, err |-> Nil, reports |-> r.reports,
                          origin |-> 0]
    /\ invocations' = invocations + 1
    /\ UNCHANGED <<cfgVars, parseVars, sizeVars, dataVars, objects, scenarioVars>>

NextRemove == CallRemoveObject \/ CallRemoveBucket

\* A test that calls the two helpers on a server holding any of the buckets,
\* empty or not.
SpecRemove == InitBucket /\ [][NextRemove]_vars

\* The step is a call of RemoveObject or RemoveBucket.
RemoveStep == invocations' = invocations + 1

\* C17: a call of RemoveObject or RemoveBucket makes exactly one call of the
\* remove function, with the bucket (and object) it was given; it reports
\* through t.Errorf exactly when remove returned an error, nothing when it
\* returned nil, and never ends the test.
C17_RemoveHelpers ==
    [][RemoveStep
          => LET given == made'[Len(made')]
             IN  /\ Len(calls') = Len(calls) + 1
                 /\ calls'[Len(calls')].fn = given.op
                 /\ calls'[Len(calls')].bucket = given.bucket
                 /\ calls'[Len(calls')].arg = given.object
                 /\ Len(tLog') = Len(tLog) + (IF calls'[Len(calls')].err # Nil THEN 1 ELSE 0)
                 /\ \A i \in Len(tLog) + 1..Len(tLog') :
                       /\ tLog'[i].level = "Errorf"
                       /\ tLog'[i].err = calls'[Len(calls')].err
                 /\ tFailed' = (tFailed \/ calls'[Len(calls')].err # Nil)
                 /\ ~Aborted(tLog')]_vars

\* RemoveBucket has failed and been reported, and the RemoveObject called
\* after it has succeeded without a report.
C17_Witness ==
    /\ Len(made) = 2
    /\ made[1].op = "RemoveBucket"
    /\ made[2].op = "RemoveObject"
    /\ Len(calls) = 2
    /\ calls[1].err # Nil
    /\ calls[2].err = Nil
    /\ Len(tLog) = 1
    /\ tLog[1].what = "Failed to remove bucket"
    /\ tFailed

-----------------------------------------------------------------------------
(* ErrorCode and ErrorMessage called on error values *)

\* The error values the two functions are called on: nil, responses by value
\* and by pointer with empty and non-empty fields, and errors of another type.
ErrorValues ==
    LET codes == {"", "AccessDenied", "NoSuchKey"}
        messages == {"", "Access Denied.", "The specified key does not exist."}
    IN  {NilError}
        \cup {ErrorResponse(c, m) : c \in codes, m \in messages}
        \cup {ErrorResponsePtr(c, m) : c \in codes, m \in messages}
        \cup {OtherError(m) : m \in messages \cup {ErrRequest}}

\* code, ok := s3.ErrorCode(err); served records the call and what it returned.
CallErrorCode ==
    /\ invocations < MaxInvocations
    /\ \E err \in ErrorValues :
          LET r == ErrorCode(err)
          IN  served' = Append(served, [fn |-> "ErrorCode", err |-> err,
                                        value |-> r.value, ok |-> r.ok])
    /\ invocations' = invocations + 1
    /\ UNCHANGED <<cfgVars, parseVars, sizeVars, serverVars, testVars, made, last,
                   scenarioVars, store>>

\* message, ok := s3.ErrorMessage(err)
CallErrorMessage ==
    /\ invocations < MaxInvocations
    /\ \E err \in ErrorValues :
          LET r == ErrorMessage(err)
          IN  served' = Append(served, [fn |-> "ErrorMessage", err |-> err,
                                        value |-> r.value, ok |-> r.ok])
    /\ invocations' = invocations + 1
    /\ UNCHANGED <<cfgVars, parseVars, sizeVars, serverVars, testVars, made, last,
                   scenarioVars, store>>

InitErrors ==
    /\ Started(NoFlags, [n \in EnvNames |-> Unset])
    /\ NoSet
    /\ NoTest

NextErrors == CallErrorCode \/ CallErrorMessage

SpecErrors == InitErrors /\ [][NextErrors]_vars

\* C18: ErrorCode and ErrorMessage return true exactly for an error whose
\* type is minio.ErrorResponse, with its Code, respectively its Message; for
\* every other error, nil included, they return "" and false; called on the
\* same error the two return the same flag.
C18_ErrorClassified ==
    /\ \A i \in 1..Len(served) :
          LET a == served[i]
          IN  /\ a.ok <=> a.err.type = "minio.ErrorResponse"
              /\ a.ok => a.value = (IF a.fn = "ErrorCode" THEN a.err.Code ELSE a.err.Message)
              /\ ~a.ok => a.value = ""
    /\ \A i, j \in 1..Len(served) : served[i].err = served[j].err => served[i].ok = served[j].ok

\* ErrorCode has returned the code of a response, and ErrorMessage has
\* returned "" and false for a pointer to the same response.
C18_Witness ==
    /\ Len(served) = 2
    /\ served[1].fn = "ErrorCode"
    /\ served[1].err = ErrorResponse("AccessDenied", "Access Denied.")
    /\ served[1].value = "AccessDenied"
    /\ served[1].ok
    /\ served[2].fn = "ErrorMessage"
    /\ served[2].err = ErrorResponsePtr("AccessDenied", "Access Denied.")
    /\ served[2].value = ""
    /\ ~served[2].ok

-----------------------------------------------------------------------------
(* Order and completeness of the removals of a test function *)

\* The requests that create an object and succeeded, the requests that read,
\* and the removals.
Creations(cs) ==
    {i \in 1..Len(cs) : cs[i].fn \in {"PutObject", "CopyObject"} /\ cs[i].err = Nil}
Reads(cs) == {i \in 1..Len(cs) : cs[i].fn \in {"GetObject", "StatObject", "ListObjects"}}
Removals(cs) == {i \in 1..Len(cs) : cs[i].fn \in {"RemoveObject", "RemoveBucket"}}
RemovalsOf(cs, o) == {i \in CallsOf(cs, "RemoveObject") : cs[i].arg = o}

\* The request that created object o first.
FirstCreation(cs, o) ==
    CHOOSE i \in Creations(cs) :
        /\ cs[i].arg = o
        /\ \A j \in Creations(cs) : cs[j].arg = o => i <= j

\* C19: the removals of the objects are attempted in the reverse order of
\* their creation, the removal of the bucket only after a removal of every
\* object created in it, and once a removal has been attempted no object is
\* uploaded, copied or read any more.
C19_TeardownOrder ==
    /\ \A i, j \in CallsOf(calls, "RemoveObject") :
          (i < j /\ calls[i].arg \in created /\ calls[j].arg \in created)
              => FirstCreation(calls, calls[i].arg) > FirstCreation(calls, calls[j].arg)
    /\ \A k \in CallsOf(calls, "RemoveBucket") :
          \A o \in created : \E i \in RemovalsOf(calls, o) : i < k
    /\ \A i \in Removals(calls) :
          \A j \in i + 1..Len(calls) : j \in Removals(calls)

\* TestCustomerEncryptedCopy is over: the four objects were removed, the
\* last copy first and the uploaded source last, and the bucket after them.
C19_Witness ==
    /\ pc = "end"
    /\ scenario.name = "TestCustomerEncryptedCopy"
    /\ Cardinality(created) = 4
    /\ \E k \in CallsOf(calls, "RemoveBucket") :
          /\ k = Len(calls)
          /\ calls[k - 1].fn = "RemoveObject"
          /\ calls[k - 1].arg = "src-object-1"
          /\ calls[k - 4].fn = "RemoveObject"
          /\ calls[k - 4].arg = "dst-object-3"

\* C20: when a test function is over, however it ended, the removal of every
\* object whose upload or copy succeeded has been attempted exactly once, and
\* the removal of the bucket exactly once when MakeBucket made it and never
\* otherwise.
C20_TeardownComplete ==
    pc = "end"
        => /\ \A i \in Creations(calls) :
                 Cardinality(RemovalsOf(calls, calls[i].arg)) = 1
           /\ Cardinality(CallsOf(calls, "RemoveBucket"))
                 = (IF \E i \in CallsOf(calls, "MakeBucket") : calls[i].err = Nil
                    THEN 1 ELSE 0)
           /\ \A k \in CallsOf(calls, "RemoveBucket") : calls[k].bucket = scenario.bucket

\* testEncryptedGet was ended by the failed upload of its second object, in
\* a bucket it had made: the first object and the bucket were removed once.
C20_Witness ==
    /\ pc = "end"
    /\ scenario.name = "TestEncryptedGet"
    /\ \E r \in 1..Len(tLog) : tLog[r].level = "Fatalf" /\ tLog[r].name = "object-1"
    /\ created = {"object-0"}
    /\ Cardinality(RemovalsOf(calls, "object-0")) = 1
    /\ Cardinality(CallsOf(calls, "RemoveBucket")) = 1
    /\ \E i \in CallsOf(calls, "MakeBucket") : calls[i].err = Nil

-----------------------------------------------------------------------------
(* The range tables and the size of the uploaded object *)

\* C21: the table of TestEncryptedRangeGet is built from the size of the
\* object it uploads, so the Start of every ranged download that was made
\* lies inside the uploaded object, and the comparison slice of an answer
\* that is the requested slice stays inside the uploaded bytes.
C21_RangesInsideObject ==
    \A i \in 1..Len(served) :
        (served[i].op = "GetObject" /\ scenario.name = "TestEncryptedRangeGet")
            => /\ scenario.tableSize = Len(scenario.data)
               /\ served[i].Start \in 0..Len(scenario.data) - 1
               /\ (served[i].err = NilError
                   /\ served[i].content = RequestedSlice(scenario.data, served[i].range))
                      => served[i].check # "panic"

\* C22: every ranged download of TestEncryptedMultipartRangeGet is the entry
\* of encryptedMultipartRangeGetTests, the table built from MultipartSize,
\* on an object of as many bytes as the test was given.
C22_MultipartRangeTable ==
    \A i \in 1..Len(served) :
        (served[i].op = "GetObject" /\ scenario.name = "TestEncryptedMultipartRangeGet")
            => LET test == encryptedMultipartRangeGetTests(scenario.multipartTableSize)
                               [served[i].entry + 1]
               IN  /\ served[i].Start = test.Start
                   /\ served[i].End = test.End

-----------------------------------------------------------------------------
(* Properties of Parse: the cached error and the values behind a nil result *)

\* C23: once a call of Parse has returned an error, every later call returns
\* that error, reads neither the flags nor the environment again and leaves
\* every configuration variable as it was, whatever the environment holds
\* now; over all calls the flags are read at most once and each environment
\* variable is looked up at most once.
C23_ParseErrorCached ==
    /\ [][(parseCalls >= 1 /\ parseRet # Nil /\ ParseStep)
             => /\ parseRet' = parseRet
                /\ flagReads' = flagReads
                /\ envReads' = envReads
                /\ Config' = Config]_vars
    /\ [](flagReads <= 1 /\ envReads <= Cardinality(EnvNames))

\* A second call of Parse has returned the error of the missing access key
\* although ACCESS_KEY was exported after the first call.
C23_Witness ==
    /\ parseCalls = 2
    /\ parseRet = ErrNoAccessKey
    /\ envChanges = 1
    /\ AccessAfterFlags = ""
    /\ env["ACCESS_KEY"] = "env-value"
    /\ AccessKey = ""
    /\ flagReads = 1

\* C24: when Parse has returned nil, Endpoint, AccessKey and SecretKey are
\* all non-empty, whatever the flags and the environment are.
C24_RequiredValuesPresent ==
    (parseCalls >= 1 /\ parseRet = Nil)
        => /\ Endpoint # ""
           /\ AccessKey # ""
           /\ SecretKey # ""

-----------------------------------------------------------------------------
(* Parse called by two goroutines *)

\* Parse takes no lock: its statements run interleaved with those of another
\* call.  pc maps each caller to the statement it is at, served records what
\* each call returned and the configuration at that moment.
Callers == {"A", "B"}

\* if X == "" { X, ok = os.LookupEnv(name); if !ok { parseErr = ...; return } }
\* for one of the three values: the value afterwards and the error.
LookupStep(value, e, name, err) ==
    IF value # "" THEN [val |-> value, err |-> Nil, reads |-> 0]
    ELSE LET l == LookupEnv(e, name)
         IN  [val |-> l.val, err |-> IF l.ok THEN Nil ELSE err, reads |-> 1]

\* The caller moves from statement from to statement to.
Goto(c, from, to) ==
    /\ pc[c] = from
    /\ pc' = [pc EXCEPT ![c] = to]

\* return parseErr (err is the value returned)
ReturnTo(c, from, err) ==
    /\ Goto(c, from, "done")
    /\ served' = Append(served, [caller |-> c, ret |-> err, config |-> Config'])
    /\ parseRet' = err
    /\ parseCalls' = parseCalls + 1

ConcurrentFrame ==
    UNCHANGED <<args, env, envChanges, sizeVars, serverVars, testVars, helperVars,
                scenario, steps, ip, defers, outcome, created, store>>

\* if !parsed
ParseCheck(c) ==
    /\ Goto(c, "call", IF MustResolve(parsed) THEN "mark" ELSE "return")
    /\ UNCHANGED <<cfgVars, parseVars, served>>
    /\ ConcurrentFrame

\* parsed = true
ParseMark(c) ==
    /\ Goto(c, "mark", "flags")
    /\ parsed' = MarkParsed(parsed)
    /\ UNCHANGED <<cfgVars, parseErr, parseCalls, parseRet, flagReads, envReads, served>>
    /\ ConcurrentFrame

\* flag.Parse()
ParseFlags(c) ==
    /\ Goto(c, "flags", "endpoint")
    /\ SetConfig(FlagParse(Config, args))
    /\ flagReads' = flagReads + 1
    /\ UNCHANGED <<parsed, parseErr, parseCalls, parseRet, envReads, served>>
    /\ ConcurrentFrame

\* if Endpoint == "" { ... }
ParseEndpoint(c) ==
    /\ pc[c] = "endpoint"
    /\ LET r == LookupStep(Endpoint, env, "SERVER_ENDPOINT", ErrNoEndpoint)
       IN  /\ Endpoint' = r.val
           /\ envReads' = envReads + r.reads
           /\ UNCHANGED <<AccessKey, SecretKey, Insecure, NoTLS, Size, MultipartSize,
                          parsed, flagReads>>
           /\ IF r.err # Nil
              THEN parseErr' = r.err /\ ReturnTo(c, "endpoint", r.err)
              ELSE /\ Goto(c, "endpoint", "access")
                   /\ UNCHANGED <<parseErr, parseCalls, parseRet, served>>
    /\ ConcurrentFrame

\* if AccessKey == "" { ... }
ParseAccess(c) ==
    /\ pc[c] = "access"
    /\ LET r == LookupStep(AccessKey, env, "ACCESS_KEY", ErrNoAccessKey)
       IN  /\ AccessKey' = r.val
           /\ envReads' = envReads + r.reads
           /\ UNCHANGED <<Endpoint, SecretKey, Insecure, NoTLS, Size, MultipartSize,
                          parsed, flagReads>>
           /\ IF r.err # Nil
              THEN parseErr' = r.err /\ ReturnTo(c, "access", r.err)
              ELSE /\ Goto(c, "access", "secret")
                   /\ UNCHANGED <<parseErr, parseCalls, parseRet, served>>
    /\ ConcurrentFrame

\* if SecretKey == "" { ... }
ParseSecret(c) ==
    /\ pc[c] = "secret"
    /\ LET r == LookupStep(SecretKey, env, "SECRET_KEY", ErrNoSecretKey)
       IN  /\ SecretKey' = r.val
           /\ envReads' = envReads + r.reads
           /\ UNCHANGED <<Endpoint, AccessKey, Insecure, NoTLS, Size, MultipartSize,
                          parsed, flagReads>>
           /\ IF r.err # Nil
              THEN parseErr' = r.err /\ ReturnTo(c, "secret", r.err)
              ELSE /\ Goto(c, "secret", "sizes")
                   /\ UNCHANGED <<parseErr, parseCalls, parseRet, served>>
    /\ ConcurrentFrame

\* if Size == 0 { ... }; if MultipartSize == 0 { ... }
ParseSizes(c) ==
    /\ Goto(c, "sizes", "return")
    /\ SetConfig(ZeroSizes(Config))
    /\ UNCHANGED <<parseVars, served>>
    /\ ConcurrentFrame

\* return parseErr
ParseReturn(c) ==
    /\ UNCHANGED <<cfgVars, parsed, parseErr, flagReads, envReads>>
    /\ ReturnTo(c, "return", parseErr)
    /\ ConcurrentFrame

\* The command lines and environments of the concurrent calls: each required
\* value given by a flag, by the environment, or missing.
ConcurrentCommandLines ==
    {[server |-> s, access |-> a, secret |-> "flag-value", insecure |-> o.insecure,
      disableTLS |-> o.disableTLS, size |-> o.size, sizeMultipart |-> o.sizeMultipart] :
        s \in {NotGiven, ""}, a \in {NotGiven, "flag-value"}, o \in OtherFlags}

InitConcurrent ==
    /\ \E a \in ConcurrentCommandLines, e \in [EnvNames -> {Unset, "env-value"}] : Started(a, e)
    /\ NoSet
    /\ buckets = {}
    /\ objects = {}
    /\ calls = <<>>
    /\ tLog = <<>>
    /\ tFailed = FALSE
    /\ made = <<>>
    /\ last = NoHelperCall
    /\ invocations = 0
    /\ scenario = NoScenario
    /\ steps = <<>>
    /\ pc = [c \in Callers |-> "call"]
    /\ ip = 0
    /\ defers = <<>>
    /\ outcome = "none"
    /\ created = {}
    /\ store = NoObjects
    /\ served = <<>>

NextConcurrent ==
    \E c \in Callers :
        \/ ParseCheck(c)
        \/ ParseMark(c)
        \/ ParseFlags(c)
        \/ ParseEndpoint(c)
        \/ ParseAccess(c)
        \/ ParseSecret(c)
        \/ ParseSizes(c)
        \/ ParseReturn(c)

SpecConcurrent == InitConcurrent /\ [][NextConcurrent]_vars

\* C25: of two interleaved calls of Parse exactly one reads the flags, and
\* when both have returned, a call that returned nil returned it with the
\* configuration that is the final one, and no call returned nil when the
\* resolution ended in an error.
C25_ConcurrentParse ==
    /\ flagReads <= 1
    /\ (\A c \in Callers : pc[c] = "done")
          => \A i \in 1..Len(served) :
                served[i].ret = Nil => (served[i].config = Config /\ parseErr = Nil)

-----------------------------------------------------------------------------
(* Two runs of a test function on the same bucket name *)

\* Two processes run TestEncryptedObjectEtag against one server and
\* BucketName has given both the same name (the tests of src/unnamed/part_000
\* name their bucket with a constant).  Their requests interleave; the server
\* answers each request from the buckets and objects it holds.  pc, ip,
\* defers, made, tLog and tFailed map each run to its own value; served
\* records every request with the run that made it.
Runs == {"X", "Y"}

SharedBucket == BucketName("test-encrypted-object-etag", "00000000")

\* The request call of run r, as recorded.
RequestOf(r, call) == [run |-> r, call |-> call]

\* The requests cs of run r are added to the record.
Record(r, cs) ==
    /\ calls' = calls \o cs
    /\ served' = served \o [i \in 1..Len(cs) |-> RequestOf(r, cs[i])]

\* The reports rs are made to the testing.T of run r.
Report(r, rs) ==
    /\ tLog' = [tLog EXCEPT ![r] = @ \o rs]
    /\ tFailed' = [tFailed EXCEPT ![r] = FailedAfter(@, rs)]

SharedFrame ==
    UNCHANGED <<cfgVars, parseVars, sizeVars, last, invocations, scenario, steps, outcome,
                created, store>>

\* s3.MakeBucket, up to the answer of exists(bucket)
SharedExists(r) ==
    /\ pc[r] = "exists"
    /\ LET ex == ClientBucketExists(buckets, SharedBucket, FALSE)
           which == MakeBucketCase(ex.ok, ex.err)
           reports == IF which = "error"
                      THEN <<Fatalf("Failed to create bucket", SharedBucket, ex.err)>>
                      ELSE <<>>
       IN  /\ Record(r, <<Call("BucketExists", SharedBucket, "", ex.ok, ex.err)>>)
           /\ Report(r, reports)
           /\ pc' = [pc EXCEPT ![r] = CASE which = "error" -> "teardown"
                                        [] which = "make" -> "make"
                                        [] OTHER -> "body"]
           /\ made' = [made EXCEPT ![r] = IF which = "default" THEN NoopCallback(SharedBucket)
                                          ELSE @]
           /\ defers' = [defers EXCEPT ![r] = IF which = "default"
                                              THEN PushDefer(@, DeferCallback(NoopCallback(SharedBucket)))
                                              ELSE @]
    /\ UNCHANGED <<buckets, objects, ip>>
    /\ SharedFrame

\* s3.MakeBucket, from make(bucket, "") to the deferred callback
SharedMake(r) ==
    /\ pc[r] = "make"
    /\ LET mk == ClientMakeBucket(buckets, SharedBucket, FALSE)
           reports == IF mk.err # Nil
                      THEN <<Fatalf("Failed to create bucket", SharedBucket, mk.err)>>
                      ELSE <<>>
       IN  /\ buckets' = mk.buckets
           /\ Record(r, <<Call("MakeBucket", SharedBucket, MakeLocation, FALSE, mk.err)>>)
           /\ Report(r, reports)
           /\ pc' = [pc EXCEPT ![r] = IF mk.err # Nil THEN "teardown" ELSE "body"]
           /\ made' = [made EXCEPT ![r] = IF mk.err # Nil THEN @
                                          ELSE RemoveCallback(SharedBucket)]
           /\ defers' = [defers EXCEPT ![r] = IF mk.err # Nil THEN @
                                              ELSE PushDefer(@, DeferCallback(RemoveCallback(SharedBucket)))]
    /\ UNCHANGED <<objects, ip>>
    /\ SharedFrame

\* The next statement group of the body of run r.
SharedStep(r) ==
    /\ pc[r] = "body"
    /\ ip[r] <= Len(steps)
    /\ LET s == steps[ip[r]]
           res == RunStep(s, SharedBucket, buckets, objects, FALSE)
           failed == res.err # Nil
           reports == IF failed /\ s.onErr = "Fatalf" THEN <<Fatalf(s.op, s.object, res.err)>>
                      ELSE IF failed THEN <<Errorf(s.op, s.object, res.err)>>
                      ELSE <<>>
       IN  /\ objects' = res.objects
           /\ Record(r, res.calls)
           /\ Report(r, reports)
           /\ pc' = [pc EXCEPT ![r] = IF failed /\ s.onErr = "Fatalf" THEN "teardown" ELSE @]
           /\ ip' = [ip EXCEPT ![r] = IF failed /\ s.onErr = "Fatalf" THEN @
                                      ELSE IF failed THEN @ + 1 + s.skip
                                      ELSE @ + 1]
           /\ defers' = [defers EXCEPT ![r] =
                            IF ~failed /\ s.cleanup
                            THEN PushDefer(@, DeferRemoveObject(SharedBucket, s.object))
                            ELSE @]
    /\ UNCHANGED <<buckets, made>>
    /\ SharedFrame

\* The body of run r has run to its end.
SharedReturn(r) ==
    /\ pc[r] = "body"
    /\ ip[r] > Len(steps)
    /\ pc' = [pc EXCEPT ![r] = "teardown"]
    /\ UNCHANGED <<serverVars, testVars, made, ip, defers, served>>
    /\ SharedFrame

\* The last deferred call of run r that has not run yet runs.
SharedDeferred(r) ==
    /\ pc[r] = "teardown"
    /\ defers[r] # <<>>
    /\ LET res == RunDeferred(defers[r][Len(defers[r])], buckets, objects, FALSE)
       IN  /\ buckets' = res.buckets
           /\ objects' = res.objects
           /\ Record(r, res.calls)
           /\ Report(r, res.reports)
    /\ defers' = [defers EXCEPT ![r] = PopDefer(@)]
    /\ UNCHANGED <<made, pc, ip>>
    /\ SharedFrame

\* Every deferred call of run r has run.
SharedFinish(r) ==
    /\ pc[r] = "teardown"
    /\ defers[r] = <<>>
    /\ pc' = [pc EXCEPT ![r] = "end"]
    /\ UNCHANGED <<serverVars, testVars, made, ip, defers, served>>
    /\ SharedFrame

\* Both runs are about to call s3.MakeBucket; the bucket exists or not, and a
\* bucket that exists may hold an object of somebody else.
InitShared ==
    /\ Started(NoFlags, [n \in EnvNames |-> Unset])
    /\ NoSet
    /\ buckets \in {{}, {SharedBucket}}
    /\ objects \in {{}, {<<b, "object-1">> : b \in buckets}}
    /\ calls = <<>>
    /\ tLog = [r \in Runs |-> <<>>]
    /\ tFailed = [r \in Runs |-> FALSE]
    /\ made = [r \in Runs |-> NilCallback]
    /\ last = NoHelperCall
    /\ invocations = 0
    /\ scenario = NoScenario
    /\ steps = TestEncryptedObjectEtag
    /\ pc = [r \in Runs |-> "exists"]
    /\ ip = [r \in Runs |-> 1]
    /\ defers = [r \in Runs |-> <<>>]
    /\ outcome = "none"
    /\ created = {}
    /\ store = NoObjects
    /\ served = <<>>

NextShared ==
    \E r \in Runs :
        \/ SharedExists(r)
        \/ SharedMake(r)
        \/ SharedStep(r)
        \/ SharedReturn(r)
        \/ SharedDeferred(r)
        \/ SharedFinish(r)

SpecShared == InitShared /\ [][NextShared]_vars

\* Run r had got the bucket from MakeBucket before request i: exists had
\* answered true, or make had succeeded.
Obtained(r, i) ==
    \E j \in 1..i - 1 :
        /\ served[j].run = r
        /\ \/ served[j].call.fn = "BucketExists" /\ served[j].call.ok
           \/ served[j].call.fn = "MakeBucket" /\ served[j].call.err = Nil

\* Request i is an object operation of the body of run r.
ObjectOperation(r, i) ==
    /\ served[i].run = r
    /\ served[i].call.fn \in {"PutObject", "CopyObject", "GetObject", "StatObject",
                               "ListObjects"}

\* C26: the removal of the bucket is requested only by a run whose MakeBucket
\* made it, and no removal succeeds while another run that got the bucket
\* from MakeBucket has object operations still to come.
C26_SharedBucketKept ==
    \A i \in 1..Len(served) :
        served[i].call.fn = "RemoveBucket"
            => /\ \E j \in 1..i - 1 :
                     /\ served[j].run = served[i].run
                     /\ served[j].call.fn = "MakeBucket"
                     /\ served[j].call.err = Nil
               /\ served[i].call.err = Nil
                     => \A r \in Runs \ {served[i].run} :
                           Obtained(r, i)
                               => \A k \in i + 1..Len(served) : ~ObjectOperation(r, k)

-----------------------------------------------------------------------------
(* Errors of sizeValue.Set *)

\* What is left of s once the longest of the suffixes GB, MB, KB, B (in any
\* case) at its end is taken off.
SuffixLengths(s) ==
    {n \in 0..Len(s) : SubSeq(s, Len(s) - n + 1, Len(s)) \in SizeSuffixes}
NumericPart(s) ==
    DropLast(s, CHOOSE n \in SuffixLengths(s) : \A m \in SuffixLengths(s) : m <= n)

\* n is an optional sign followed by one or more decimal digits.
Unsigned(n) == IF n # <<>> /\ n[1] \in {"+", "-"} THEN Tail(n) ELSE n
IsInteger(n) ==
    /\ Unsigned(n) # <<>>
    /\ \A i \in 1..Len(Unsigned(n)) : IsDigit(Unsigned(n)[i])

\* The integer n lies in -2^63 .. 2^63 - 1.
InInt64(n) ==
    LET w == NatOf(Unsigned(n), ZeroLimbs(WideLimbs))
    IN  \/ FitsInt64(w)
        \/ n[1] = "-" /\ w = MinInt64 \o ZeroLimbs(WideLimbs - NLimbs)

\* The error of the number parser for a numeric part that is not an int64.
ParserError(n) == IF IsInteger(n) THEN ErrRange ELSE ErrSyntax

\* The step is a call of Set.
SetStep == setCalls' = setCalls + 1

\* C27: a call of Set with a string whose numeric part is not a decimal
\* integer of 64 bits (no digits, a character that is no digit, an unknown
\* suffix, a number out of range) returns the error of the number parser and
\* leaves Size and MultipartSize as they were.
C27_SetErrorKeepsSize ==
    [][(SetStep /\ ~(IsInteger(NumericPart(setArg')) /\ InInt64(NumericPart(setArg'))))
          => /\ setErr' = ParserError(NumericPart(setArg'))
             /\ Size' = Size
             /\ MultipartSize' = MultipartSize]_vars

\* Set("9223372036854775808KB") on -size has returned the range error and
\* -size is still the default.
C27_Witness ==
    /\ setCalls > 0
    /\ setRecv = "size"
    /\ setArg = <<"9","2","2","3","3","7","2","0","3","6","8","5","4","7","7","5","8","0","8","K","B">>
    /\ setErr = ErrRange
    /\ Size = InitConfig.Size

=============================================================================
